---- MODULE Spec2Model ----
(***************************************************************************)
(* A model of the peer synchronisation engine of obsidian-p2p-sync:        *)
(* SyncService (session handshake with tie-break, live sync, chunked       *)
(* transfer, reconciliation) over an ordered per-peer stream.              *)
(*                                                                         *)
(* Two devices, "dA" and "dB", each with one transport peerId that is      *)
(* identified here with its deviceId.  chan[s][r] is the ordered byte      *)
(* stream from s to r, as a sequence of decoded messages.                  *)
(*                                                                         *)
(* The Rust core (change journal, key exchange, chunk encryption) and the  *)
(* session half of SecurityService are not part of the TypeScript          *)
(* sources; their operators are written from the specification and are     *)
(* marked as such where they are defined.                                  *)
(***************************************************************************)
EXTENDS Integers, Sequences, FiniteSets, TLC

VARIABLES
    trust,                  \* trust[d][e]: long-term key d stores for deviceId e
    pendingSessionOffers,   \* pendingSessionOffers[d][p]: keyExchange of d's outstanding offer
    sessionKeys,            \* sessionKeys[d][p]: symmetric key d holds for p
    ephCount,               \* ephCount[d][p]: ephemeral keypairs d generated towards p
    sessionRace,            \* sessionRace[d][p]: last "Session Race" verdict d logged
    chan,                   \* chan[s][r]: messages in flight from s to r
    vault,                  \* vault[d][path]: the file in d's vault
    journal,                \* journal[d]: d's ChangeJournal
    incomingChunks,         \* incomingChunks[d][p][path]: buffered FILE_CHUNKs
    remoteUpdateInProgress, \* remoteUpdateInProgress[d]: suppressed paths
    outgoing,               \* outgoing[d]: transferFile loops that still have chunks to send
    now,                    \* Date.now()
    edits,                  \* number of local vault changes made so far
    raced,                  \* history: both offers were in flight at once
    rcVault, rcJournal, rcRemote, rcChanges, rcDone, rcSelf,  \* one reconciliation, in isolation
    cmChanges,              \* a plan handed to the "Process Plan" part of handleSyncResponse
    cmPlanned,              \* that part has run
    cmModal,                \* the ConfirmationModal: "none", "open", "confirmed", "cancelled"
    cmSent,                 \* FILE_REQUEST / FILE_DELETE messages executeSync sent
    cmDeleted,              \* paths executeSync deleted locally
    cmTransfers,            \* paths executeSync handed to transferFile
    writing,                \* reassembleAndWrite calls waiting in writeBinary, on the receiver
    vaultEvents,            \* vault create/modify events of completed writes, not yet handled
    txContent,              \* the bytes of the file that is transferred
    txOrder,                \* the order in which its FILE_CHUNKs arrive
    txSecond,               \* the bytes of a second transfer of the same path, if any
    txPhase,                \* transferFile calls made by the sender
    txSent,                 \* history: the FILE_CHUNKs of the first transfer, as sent
    txWrites,               \* history: the contents reassembleAndWrite was called with
    txDelivered,            \* history: FILE_CHUNKs handled by the receiver
    activePairingCode,      \* SecurityService.activePairingCode of the responder
    codeTimers,             \* armed expiry timers of generatePairingCode: code and due time
    pendingRequests,        \* SecurityService.pendingRequests of the initiator, with the timeout's due time
    pairedDevices,          \* pairedDevices[d]: settings.pairedDevices of d
    net,                    \* UDP datagrams in flight
    pairClock,              \* milliseconds since the start of the behaviour
    generated,              \* history: the latest generatePairingCode call: code, time, requests accepted since
    outcome,                \* history: outcome[r]: how the initiatePairing promise of request r settled
    handled,                \* history: the datagram handled last and what the handler did
    creating,               \* creating[d]: initiateSession calls of d waiting in createSessionOffer
    connections,            \* the TCP connection between the two devices: up, and how often it dropped
    activeTransfers,        \* activeTransfers[path]: the TransferStatus of the inbound transfer of path
    notices,                \* the Notices reassembleAndWrite has shown, oldest first
    isDiscovering,          \* P2PDiscoveryService.isDiscovering
    peers,                  \* peers[id]: the entry of the peer table, a DiscoveredPeerData or none
    ttlTimers,              \* ttlTimers[id]: the pending TTL timeout of the peer and when it is due
    nodePeers,              \* the peer table of the P2P node: last seen time per peer id, 0 if absent
    broadcastInterval,      \* the 2 s announcement interval is set
    pruneInterval,          \* the 5 s sweep interval is set
    dsClock,                \* Date.now() of the discovery service
    dsLast,                 \* the last discovery operation and the events it emitted
    udpSockets,             \* dgram sockets the UdpTransport has created and not closed
    intervals,              \* setInterval timers of the discovery service that have not been cleared
    lastActivityTime,       \* SyncService.lastActivityTime
    lastMessageTime,        \* when handleMessage last ran for a message of a peer
    tcpPeers,               \* the peer ids with an entry in TcpTransport.connections
    actClock,               \* Date.now() of the SyncService
    actLast,                \* the last step of the inactivity watch
    wire,                   \* bytes written to the socket and not yet read by the receiver
    framesWritten,          \* history: the payloads written to the socket, in order
    buffer,                 \* setupSocket: the receiver's buffer
    expectedLength,         \* setupSocket: the declared length of the frame being read, or NoLength
    frameLog,               \* history: what the data handler made of each frame, in order
    bytesRead,              \* history: number of bytes the data events have delivered
    tcpSockets,             \* tcpSockets[c]: the TCP connection c: who opened it, which ends are set up, whether it is alive
    tcpTable,               \* tcpTable[d]: TcpTransport.connections of d: the connection its entry for the peer holds, or NoConn
    tcpPipe,                \* tcpPipe[c][d]: frames written to connection c and not yet read by d
    tcpLog,                 \* history, tcpLog[d]: the frames d's transport handled that were not handshakes, with the sender it found
    tcpSent,                \* history: number of messages sent with send
    tcpLast,                \* history: the last transport step and whether it emitted 'disconnected'
    suppressTimers          \* suppressTimers[path]: the timers set on the receiver that will take path out of remoteUpdateInProgress

protoVars == <<trust, pendingSessionOffers, sessionKeys, ephCount, sessionRace,
               chan, vault, journal, incomingChunks, remoteUpdateInProgress,
               outgoing, now, edits, raced>>
rcVars == <<rcVault, rcJournal, rcRemote, rcChanges, rcDone, rcSelf>>
cmVars == <<cmChanges, cmPlanned, cmModal, cmSent, cmDeleted, cmTransfers>>
txVars == <<writing, vaultEvents, txContent, txOrder, txSecond, txPhase, txSent,
            txWrites, txDelivered>>
sessionVars == <<trust, pendingSessionOffers, sessionKeys, ephCount, sessionRace,
                 now, edits, raced>>
pairVars == <<activePairingCode, codeTimers, pendingRequests, pairedDevices, net,
              pairClock, generated, outcome, handled>>
connVars == <<creating, connections>>
asmVars == <<activeTransfers, notices>>
dsVars == <<isDiscovering, peers, ttlTimers, nodePeers, broadcastInterval, pruneInterval, dsClock, dsLast,
           udpSockets, intervals>>
actVars == <<lastActivityTime, lastMessageTime, tcpPeers, actClock, actLast>>
frVars == <<wire, framesWritten, buffer, expectedLength, frameLog, bytesRead>>
sockVars == <<tcpSockets, tcpTable, tcpPipe, tcpLog, tcpSent, tcpLast>>
tmVars == <<suppressTimers>>
sideVars == <<rcVars, cmVars, txVars, pairVars, connVars, asmVars, dsVars, actVars, frVars, sockVars, tmVars>>
notRcVars == <<protoVars, cmVars, txVars, pairVars, connVars, asmVars, dsVars, actVars, frVars, sockVars, tmVars>>
notCmVars == <<protoVars, rcVars, txVars, pairVars, connVars, asmVars, dsVars, actVars, frVars, sockVars, tmVars>>
notPairVars == <<protoVars, rcVars, cmVars, txVars, connVars, asmVars, dsVars, actVars, frVars, sockVars, tmVars>>
notConnVars == <<protoVars, rcVars, cmVars, txVars, pairVars, asmVars, dsVars, actVars, frVars, sockVars, tmVars>>
notProtoConnVars == <<rcVars, cmVars, txVars, pairVars, asmVars, dsVars, actVars, frVars, sockVars, tmVars>>
notAsmVars == <<protoVars, rcVars, cmVars, txVars, pairVars, connVars, dsVars, actVars, frVars, sockVars, tmVars>>
notDsVars == <<protoVars, rcVars, cmVars, txVars, pairVars, connVars, asmVars, actVars, frVars, sockVars, tmVars>>
notActVars == <<protoVars, rcVars, cmVars, txVars, pairVars, connVars, asmVars, dsVars, frVars, sockVars, tmVars>>
notFrVars == <<protoVars, rcVars, cmVars, txVars, pairVars, connVars, asmVars, dsVars, actVars, sockVars, tmVars>>
notSockVars == <<protoVars, rcVars, cmVars, txVars, pairVars, connVars, asmVars, dsVars, actVars, frVars, tmVars>>
notTmVars == <<protoVars, rcVars, cmVars, txVars, pairVars, connVars, asmVars, dsVars, actVars, frVars, sockVars>>
vars == <<protoVars, rcVars, cmVars, txVars, pairVars, connVars, asmVars, dsVars, actVars, frVars, sockVars, tmVars>>

(***************************************************************************)
(* Bounds                                                                  *)
(***************************************************************************)
MaxOffers == 2     \* initiateSession calls made from outside the handlers, per peer
MaxEdits == 1      \* local vault changes per behaviour
MaxEpoch == 1      \* clock values span MaxEpoch tolerance windows
MaxPlan == 11      \* changes in a plan handed to executeSync
MaxChunks == 3     \* chunks of a transferred file

(***************************************************************************)
(* Devices, paths, time                                                    *)
(***************************************************************************)
Devices == {"dA", "dB"}
DeviceOrder == <<"dA", "dB">>
Peers(d) == Devices \ {d}

RankOf(d) == CHOOSE i \in 1..Len(DeviceOrder) : DeviceOrder[i] = d
\* JavaScript's < on the two deviceId strings
LexLess(a, b) == RankOf(a) < RankOf(b)

Tolerance == 2000
TimeVals == {0, 1} \cup {k * Tolerance + j : k \in 1..MaxEpoch, j \in {0, 1}}

(***************************************************************************)
(* Identity and session cryptography (SecurityService / crypto.rs)         *)
(***************************************************************************)
NoKey == <<>>
IdentityKey(d) == <<"key", d>>
StaleKey(d) == <<"old", d>>

Sign(key, data) == [key |-> key, data |-> data]
verify_signature(publicKey, data, signature) ==
    signature = [key |-> publicKey, data |-> data]

isDevicePaired(d, deviceId) == trust[d][deviceId] # NoKey

NoOffer == <<>>
NoSession == {}
NewEphemeral(d, p) == <<d, p, ephCount[d][p] + 1>>
compute_shared_secret(myEph, otherEph) == {myEph, otherEph}

SessionOffer(d, eph) ==
    [type |-> "SESSION_OFFER", deviceId |-> d, ephemeralPublicKey |-> eph,
     signature |-> Sign(IdentityKey(d), eph)]
SessionAnswer(d, eph) ==
    [type |-> "SESSION_ANSWER", deviceId |-> d, ephemeralPublicKey |-> eph,
     signature |-> Sign(IdentityKey(d), eph)]

\* a handshake that accepts any signature
VerifySessionMessage_unchecked(d, msg) == msg.deviceId \in Devices

\* the signature of an offer or answer verifies against the TrustRecord
\* stored for the deviceId the message claims
VerifySessionMessage(d, msg) ==
    /\ msg.deviceId \in Devices
    /\ isDevicePaired(d, msg.deviceId)
    /\ verify_signature(trust[d][msg.deviceId], msg.ephemeralPublicKey, msg.signature)

(***************************************************************************)
(* Vault files and the change journal (sync.rs)                            *)
(***************************************************************************)
Paths == {"a.md", "b.md"}
PathOrder == <<"a.md", "b.md">>      \* the order vault.getFiles() lists paths in
Contents == {<<"x">>, <<"y", "x">>}  \* a content is its sequence of chunk-sized blocks

NoFile == [exists |-> FALSE, content |-> <<>>, mtime |-> 0]
File(content, mtime) == [exists |-> TRUE, content |-> content, mtime |-> mtime]

Hash(content) == <<"sha256", content>>
NoEntry == [present |-> FALSE, hash |-> <<>>, mtime |-> 0, sequence |-> 0,
            is_deleted |-> FALSE]
EmptyJournal == [files |-> [path \in Paths |-> NoEntry], global_sequence |-> 0]

\* a recordUpdate that stamps the entry with the counter it found
update_file_stale(j, path, content, mtime) ==
    LET e == j.files[path]
        entry == [present |-> TRUE, hash |-> Hash(content), mtime |-> mtime,
                  sequence |-> j.global_sequence, is_deleted |-> FALSE]
    IN  [changed |-> TRUE,
         journal |-> [files |-> [j.files EXCEPT ![path] = entry],
                      global_sequence |-> j.global_sequence]]

\* recordUpdate: a new hash, a missing entry or a tombstone takes the next
\* sequence number and is reported as changed
update_file(j, path, content, mtime) ==
    LET e == j.files[path]
        changed == \/ ~e.present
                   \/ e.is_deleted
                   \/ e.hash # Hash(content)
        entry == [present |-> TRUE, hash |-> Hash(content), mtime |-> mtime,
                  sequence |-> j.global_sequence + 1, is_deleted |-> FALSE]
    IN  [changed |-> changed,
         journal |-> IF changed
                     THEN [files |-> [j.files EXCEPT ![path] = entry],
                           global_sequence |-> j.global_sequence + 1]
                     ELSE j]

\* recordDelete: an entry that is not yet a tombstone becomes one, with a
\* fresh sequence number and the deletion time
mark_file_deleted(j, path, mtime) ==
    LET e == j.files[path]
        changed == ~(e.present /\ e.is_deleted)
        entry == [present |-> TRUE, hash |-> e.hash, mtime |-> mtime,
                  sequence |-> j.global_sequence + 1, is_deleted |-> TRUE]
    IN  [changed |-> changed,
         journal |-> IF changed
                     THEN [files |-> [j.files EXCEPT ![path] = entry],
                           global_sequence |-> j.global_sequence + 1]
                     ELSE j]

(***************************************************************************)
(* mtimes on the wire: String(mtime) on the sender, BigInt(text) on the     *)
(* receiver; the text is the sequence of decimal digits                    *)
(***************************************************************************)
RECURSIVE DecimalString(_)
DecimalString(n) ==
    IF n < 10 THEN <<n>> ELSE Append(DecimalString(n \div 10), n % 10)

RECURSIVE ParseBigInt(_)
ParseBigInt(digits) ==
    IF Len(digits) = 0 THEN 0
    ELSE 10 * ParseBigInt(SubSeq(digits, 1, Len(digits) - 1)) + digits[Len(digits)]

(***************************************************************************)
(* SYNC_RESPONSE: what handleSyncRequest lists                             *)
(***************************************************************************)
RECURSIVE LiveEntries(_, _)
LiveEntries(v, i) ==
    IF i > Len(PathOrder) THEN <<>>
    ELSE LET path == PathOrder[i]
         IN  (IF v[path].exists
              THEN <<[path |-> path, mtime |-> DecimalString(v[path].mtime),
                      isDeleted |-> FALSE]>>
              ELSE <<>>) \o LiveEntries(v, i + 1)

RECURSIVE DeletedEntries(_, _, _)
DeletedEntries(v, j, i) ==
    IF i > Len(PathOrder) THEN <<>>
    ELSE LET path == PathOrder[i]
             metadata == j.files[path]
         IN  (IF metadata.present /\ metadata.is_deleted /\ ~v[path].exists
              THEN <<[path |-> path, mtime |-> DecimalString(metadata.mtime),
                      isDeleted |-> TRUE]>>
              ELSE <<>>) \o DeletedEntries(v, j, i + 1)

ResponseFiles(v, j) == LiveEntries(v, 1) \o DeletedEntries(v, j, 1)

(***************************************************************************)
(* The reconciliation plan of handleSyncResponse                           *)
(***************************************************************************)
Change(path, type, reason) == [path |-> path, type |-> type, reason |-> reason]

\* a comparison that always moves the file one way or the other
CompareLive_always(path, localMtime, remoteMtime) ==
    IF remoteMtime - localMtime >= 0
    THEN <<Change(path, "pull", "Remote is newer")>>
    ELSE <<Change(path, "push", "Local is newer")>>

\* a comparison without the tolerance window
CompareLive_exact(path, localMtime, remoteMtime) ==
    LET diff == remoteMtime - localMtime
    IN  IF diff > 0 THEN <<Change(path, "pull", "Remote is newer")>>
        ELSE IF diff < 0 THEN <<Change(path, "push", "Local is newer")>>
        ELSE <<>>

\* the mtime comparison of two live copies, with its tolerance window
CompareLive(path, localMtime, remoteMtime) ==
    LET diff == remoteMtime - localMtime
    IN  IF diff > Tolerance THEN <<Change(path, "pull", "Remote is newer")>>
        ELSE IF diff < -Tolerance THEN <<Change(path, "push", "Local is newer")>>
        ELSE <<>>

\* a remote tombstone that deletes the local file whatever its mtime
CompareRemoteDeleted_always(path, localFile, remoteMtime) ==
    IF localFile.exists
    THEN <<Change(path, "delete", "Remote deletion is newer")>>
    ELSE <<>>

\* a remote tombstone against the local file
CompareRemoteDeleted(path, localFile, remoteMtime) ==
    IF localFile.exists /\ localFile.mtime < remoteMtime
    THEN <<Change(path, "delete", "Remote deletion is newer")>>
    ELSE <<>>

\* a missing local file that is pulled whatever the local tombstone says
CompareMissingLocal_pull(path, metadata, remoteMtime) ==
    <<Change(path, "pull", "New remote file")>>

\* a remote live file that is missing locally, against the local tombstone
CompareMissingLocal(path, metadata, remoteMtime) ==
    LET deleted == metadata.present /\ metadata.is_deleted
        myDeletionTime == metadata.mtime
    IN  IF deleted /\ myDeletionTime # 0 /\ myDeletionTime > remoteMtime
        THEN <<Change(path, "push", "Local deletion is newer")>>
        ELSE <<Change(path, "pull", "New remote file")>>

RemoteChange(v, j, remoteFile) ==
    LET path == remoteFile.path
        remoteMtime == ParseBigInt(remoteFile.mtime)
    IN  IF remoteFile.isDeleted
        THEN CompareRemoteDeleted(path, v[path], remoteMtime)
        ELSE IF ~v[path].exists
             THEN CompareMissingLocal(path, j.files[path], remoteMtime)
             ELSE CompareLive(path, v[path].mtime, remoteMtime)

RECURSIVE RemoteChanges(_, _, _)
RemoteChanges(v, j, remoteFiles) ==
    IF remoteFiles = <<>> THEN <<>>
    ELSE RemoteChange(v, j, Head(remoteFiles)) \o RemoteChanges(v, j, Tail(remoteFiles))

RemotePaths(remoteFiles) == {remoteFiles[i].path : i \in 1..Len(remoteFiles)}

\* every local file counts as missing remotely
MissingRemotely_all(v, remotePaths, path) == v[path].exists

\* a local file the remote snapshot does not mention
MissingRemotely(v, remotePaths, path) == v[path].exists /\ path \notin remotePaths

RECURSIVE LocalOnlyChanges(_, _, _)
LocalOnlyChanges(v, remotePaths, i) ==
    IF i > Len(PathOrder) THEN <<>>
    ELSE (IF MissingRemotely(v, remotePaths, PathOrder[i])
          THEN <<Change(PathOrder[i], "push", "Remote missing file")>>
          ELSE <<>>) \o LocalOnlyChanges(v, remotePaths, i + 1)

ComputeChanges(v, j, remoteFiles) ==
    RemoteChanges(v, j, remoteFiles) \o LocalOnlyChanges(v, RemotePaths(remoteFiles), 1)

\* "All files are up to date."
UpToDate(changes) == Len(changes) = 0

(***************************************************************************)
(* Chunked transfer (transfer.rs and SyncService.transferFile)             *)
(***************************************************************************)
\* AES-GCM under the session key; the fresh nonce travels with the data
Encrypt(key, plain) == [key |-> key, plain |-> plain]
CanDecrypt(chunkMsg, key) == chunkMsg.data.key = key
decrypt_chunk(chunkMsg, key) == chunkMsg.data.plain

FileChunk(path, index, total, data) ==
    [type |-> "FILE_CHUNK", filePath |-> path, chunkIndex |-> index,
     totalChunks |-> total, data |-> data]

prepare_transfer(path, content, key) ==
    [i \in 1..Len(content) |->
        FileChunk(path, i - 1, Len(content), Encrypt(key, <<content[i]>>))]

\* a transferFile that sends the chunks of prepare_transfer and nothing else
TransferMessages_loopOnly(path, content, key) == prepare_transfer(path, content, key)

\* the FILE_CHUNK messages one transferFile call sends, in order
TransferMessages(path, content, key) ==
    LET chunks == prepare_transfer(path, content, key)
    IN  IF Len(chunks) = 0 /\ Len(content) = 0
        THEN <<FileChunk(path, 0, 1, Encrypt(key, <<>>))>>
        ELSE chunks

Transfer(p, path, content, key) ==
    [peerId |-> p, chunks |-> TransferMessages(path, content, key)]

NoTransfer == [present |-> FALSE, total |-> 0, chunks |-> <<>>]

\* incomingChunks' entry: chunks is a JavaScript Map from chunkIndex to the
\* message, a sequence of entries in insertion order
MapHas(entries, k) == \E i \in 1..Len(entries) : entries[i].key = k
MapSet(entries, k, v) ==
    IF MapHas(entries, k)
    THEN [i \in 1..Len(entries) |->
             IF entries[i].key = k THEN [key |-> k, value |-> v] ELSE entries[i]]
    ELSE Append(entries, [key |-> k, value |-> v])

\* the buffered entry after a FILE_CHUNK, created by the transfer's first chunk
BufferChunk(current, msg) ==
    LET started == IF current.present THEN current
                   ELSE [present |-> TRUE, total |-> msg.totalChunks, chunks |-> <<>>]
    IN  [started EXCEPT !.chunks = MapSet(@, msg.chunkIndex, msg)]

IsComplete(transfer) == Len(transfer.chunks) = transfer.total

\* the buffered messages in the order they arrived
SortedChunks_arrival(entries) == [i \in 1..Len(entries) |-> entries[i].value]

\* sortedChunks: the buffered messages by ascending chunkIndex
RECURSIVE SortedChunks(_)
SortedChunks(entries) ==
    IF entries = <<>> THEN <<>>
    ELSE LET m == CHOOSE i \in 1..Len(entries) :
                      \A k \in 1..Len(entries) : entries[i].key <= entries[k].key
         IN  <<entries[m].value>>
                 \o SortedChunks(SubSeq(entries, 1, m - 1) \o SubSeq(entries, m + 1, Len(entries)))

RECURSIVE Concatenate(_, _)
Concatenate(sortedChunks, key) ==
    IF sortedChunks = <<>> THEN <<>>
    ELSE decrypt_chunk(Head(sortedChunks), key) \o Concatenate(Tail(sortedChunks), key)

\* reassembleAndWrite up to the write: the plaintext, if every chunk decrypts
Reassemble(transfer, key) ==
    LET sortedChunks == SortedChunks(transfer.chunks)
    IN  [ok |-> \A i \in 1..Len(sortedChunks) : CanDecrypt(sortedChunks[i], key),
         content |-> Concatenate(sortedChunks, key)]

(***************************************************************************)
(* Sending and receiving on the per-peer stream                            *)
(***************************************************************************)
PeerOf(d) == CHOOSE p \in Devices : p # d

HasMessage(d, p, type) == chan[p][d] # <<>> /\ Head(chan[p][d]).type = type

\* d takes the first message of p's stream and sends msgs back
Deliver(d, p, msgs) ==
    chan' = [chan EXCEPT ![p][d] = Tail(@), ![d][p] = @ \o msgs]

\* a tie-break in which every device yields
IsLeader_nobody(myDeviceId, peerDeviceId) == FALSE

\* the tie-break of two simultaneous offers
IsLeader(myDeviceId, peerDeviceId) == LexLess(myDeviceId, peerDeviceId)

\* initiateSession sends an offer unless one is pending
WillOffer(d, p) == pendingSessionOffers[d][p] = NoOffer

(***************************************************************************)
(* SecurityService: the session handshake                                  *)
(***************************************************************************)
\* handleSessionOffer: verify the offer, derive the key with a fresh
\* ephemeral keypair, answer
handleSessionOffer(d, p, msg) ==
    LET eph == NewEphemeral(d, p)
    IN  [ok |-> VerifySessionMessage(d, msg),
         key |-> compute_shared_secret(eph, msg.ephemeralPublicKey),
         answer |-> SessionAnswer(d, eph)]

\* handleSessionAnswer: verify the answer, derive the key with the
\* keypair of the pending offer
handleSessionAnswer(d, p, msg, keyExchange) ==
    [ok |-> VerifySessionMessage(d, msg),
     key |-> compute_shared_secret(keyExchange, msg.ephemeralPublicKey)]

(***************************************************************************)
(* SyncService: session handshake                                          *)
(***************************************************************************)
\* both devices have an offer pending and in flight to the other
RaceState ==
    \A d \in Devices :
        LET p == PeerOf(d)
        IN  /\ pendingSessionOffers[d][p] # NoOffer
            /\ \E i \in 1..Len(chan[d][p]) :
                   chan[d][p][i] = SessionOffer(d, pendingSessionOffers[d][p])

\* initiateSession, called when the connection to the peer is up
InitiateSession(d) ==
    LET p == PeerOf(d)
        eph == NewEphemeral(d, p)
    IN  /\ ephCount[d][p] < MaxOffers
        /\ WillOffer(d, p)
        /\ pendingSessionOffers' = [pendingSessionOffers EXCEPT ![d][p] = eph]
        /\ ephCount' = [ephCount EXCEPT ![d][p] = @ + 1]
        /\ chan' = [chan EXCEPT ![d][p] = Append(@, SessionOffer(d, eph))]
        /\ raced' = (raced \/ RaceState')
        /\ UNCHANGED <<sideVars, trust, sessionKeys, sessionRace, vault, journal, incomingChunks,
                       remoteUpdateInProgress, outgoing, now, edits>>

\* handleMessage, SESSION_OFFER
HandleSessionOffer(d) ==
    LET p == PeerOf(d)
        msg == Head(chan[p][d])
        racing == pendingSessionOffers[d][p] # NoOffer
        ignored == racing /\ IsLeader(d, msg.deviceId)
        r == handleSessionOffer(d, p, msg)
        accepted == ~ignored /\ r.ok
    IN  /\ HasMessage(d, p, "SESSION_OFFER")
        /\ sessionRace' = [sessionRace EXCEPT ![d][p] =
                IF ignored THEN "leader" ELSE IF racing THEN "follower" ELSE @]
        /\ pendingSessionOffers' = [pendingSessionOffers EXCEPT ![d][p] =
                IF racing /\ ~ignored THEN NoOffer ELSE @]
        /\ sessionKeys' = [sessionKeys EXCEPT ![d][p] = IF accepted THEN r.key ELSE @]
        /\ ephCount' = [ephCount EXCEPT ![d][p] = IF accepted THEN @ + 1 ELSE @]
        /\ Deliver(d, p, IF accepted THEN <<r.answer>> ELSE <<>>)
        /\ UNCHANGED <<sideVars, raced, trust, vault, journal, incomingChunks, remoteUpdateInProgress,
                       outgoing, now, edits>>

\* handleMessage, SESSION_ANSWER, and the syncAllFilesToPeer it ends with
HandleSessionAnswer(d) ==
    LET p == PeerOf(d)
        msg == Head(chan[p][d])
        keyExchange == pendingSessionOffers[d][p]
        r == handleSessionAnswer(d, p, msg, keyExchange)
        established == keyExchange # NoOffer /\ r.ok
    IN  /\ HasMessage(d, p, "SESSION_ANSWER")
        /\ sessionKeys' = [sessionKeys EXCEPT ![d][p] = IF established THEN r.key ELSE @]
        /\ pendingSessionOffers' = [pendingSessionOffers EXCEPT ![d][p] =
                IF established THEN NoOffer ELSE @]
        /\ Deliver(d, p, IF established THEN <<[type |-> "SYNC_REQUEST"]>> ELSE <<>>)
        /\ UNCHANGED <<sideVars, raced, trust, ephCount, sessionRace, vault, journal, incomingChunks,
                       remoteUpdateInProgress, outgoing, now, edits>>

(***************************************************************************)
(* SyncService: reconciliation                                             *)
(***************************************************************************)
handleSyncRequest(d) ==
    LET p == PeerOf(d)
    IN  /\ HasMessage(d, p, "SYNC_REQUEST")
        /\ Deliver(d, p, <<[type |-> "SYNC_RESPONSE",
                            files |-> ResponseFiles(vault[d], journal[d])]>>)
        /\ UNCHANGED <<sideVars, raced, trust, pendingSessionOffers, sessionKeys, ephCount, sessionRace,
                       vault, journal, incomingChunks, remoteUpdateInProgress,
                       outgoing, now, edits>>

\* executeSync, the "delete" changes: the local file goes and gets a tombstone
RECURSIVE ExecuteDeletes(_, _, _, _)
ExecuteDeletes(v, j, changes, t) ==
    IF changes = <<>> THEN [vault |-> v, journal |-> j]
    ELSE LET c == Head(changes)
         IN  IF c.type = "delete" /\ v[c.path].exists
             THEN ExecuteDeletes([v EXCEPT ![c.path] = NoFile],
                                 mark_file_deleted(j, c.path, t).journal,
                                 Tail(changes), t)
             ELSE ExecuteDeletes(v, j, Tail(changes), t)

\* executeSync, the messages sent: FILE_REQUEST for a pull, FILE_DELETE for a
\* push of a local deletion
RECURSIVE PlanMessages(_)
PlanMessages(changes) ==
    IF changes = <<>> THEN <<>>
    ELSE LET c == Head(changes)
         IN  (IF c.type = "pull"
              THEN <<[type |-> "FILE_REQUEST", filePath |-> c.path]>>
              ELSE IF c.type = "push" /\ c.reason = "Local deletion is newer"
              THEN <<[type |-> "FILE_DELETE", filePath |-> c.path]>>
              ELSE <<>>) \o PlanMessages(Tail(changes))

\* executeSync, the transferFile calls of the other pushes
RECURSIVE PlanTransfers(_, _, _, _)
PlanTransfers(v, changes, p, key) ==
    IF changes = <<>> THEN <<>>
    ELSE LET c == Head(changes)
         IN  (IF c.type = "push" /\ c.reason # "Local deletion is newer"
                 /\ v[c.path].exists
              THEN <<Transfer(p, c.path, v[c.path].content, key)>>
              ELSE <<>>) \o PlanTransfers(v, Tail(changes), p, key)

DeletePaths(changes) ==
    {changes[i].path : i \in {k \in 1..Len(changes) : changes[k].type = "delete"}}

\* executeSync, the paths of the pushes that call transferFile
RECURSIVE PushPaths(_)
PushPaths(changes) ==
    IF changes = <<>> THEN <<>>
    ELSE LET c == Head(changes)
         IN  (IF c.type = "push" /\ c.reason # "Local deletion is newer"
              THEN <<c.path>> ELSE <<>>) \o PushPaths(Tail(changes))

ConfirmThreshold == 10

\* a plan that is never held back
NeedsConfirmation_never(changes) == FALSE

\* a plan of more than 10 changes opens the ConfirmationModal
NeedsConfirmation(changes) == Len(changes) > ConfirmThreshold

\* handleSyncResponse: the plan and executeSync.  A plan never has more than
\* Cardinality(Paths) changes here, so it is executed without confirmation.
handleSyncResponse(d) ==
    LET p == PeerOf(d)
        msg == Head(chan[p][d])
        key == sessionKeys[d][p]
        changes == IF key = NoSession THEN <<>>
                   ELSE ComputeChanges(vault[d], journal[d], msg.files)
        applied == ExecuteDeletes(vault[d], journal[d], changes, now)
    IN  /\ HasMessage(d, p, "SYNC_RESPONSE")
        /\ vault' = [vault EXCEPT ![d] = applied.vault]
        /\ journal' = [journal EXCEPT ![d] = applied.journal]
        /\ remoteUpdateInProgress' =
               [remoteUpdateInProgress EXCEPT ![d] = @ \cup DeletePaths(changes)]
        /\ outgoing' = [outgoing EXCEPT ![d] = @ \o PlanTransfers(vault[d], changes, p, key)]
        /\ Deliver(d, p, PlanMessages(changes))
        /\ UNCHANGED <<sideVars, raced, trust, pendingSessionOffers, sessionKeys, ephCount, sessionRace,
                       incomingChunks, now, edits>>

(***************************************************************************)
(* SyncService: transfers                                                  *)
(***************************************************************************)
\* handleMessage, FILE_REQUEST
HandleFileRequest(d) ==
    LET p == PeerOf(d)
        msg == Head(chan[p][d])
        file == vault[d][msg.filePath]
        sessionKey == sessionKeys[d][p]
        serve == file.exists /\ sessionKey # NoSession
    IN  /\ HasMessage(d, p, "FILE_REQUEST")
        /\ outgoing' = [outgoing EXCEPT ![d] =
               IF serve THEN Append(@, Transfer(p, msg.filePath, file.content, sessionKey))
               ELSE @]
        /\ Deliver(d, p, <<>>)
        /\ UNCHANGED <<sideVars, raced, trust, pendingSessionOffers, sessionKeys, ephCount, sessionRace,
                       vault, journal, incomingChunks, remoteUpdateInProgress, now, edits>>

\* transferFile, one pass of the chunk loop: the next FILE_CHUNK of a transfer
SendChunk(d) ==
    \E i \in 1..Len(outgoing[d]) :
        LET t == outgoing[d][i]
            rest == [t EXCEPT !.chunks = Tail(@)]
        IN  /\ chan' = [chan EXCEPT ![d][t.peerId] = Append(@, Head(t.chunks))]
            /\ outgoing' = [outgoing EXCEPT ![d] =
                   IF rest.chunks = <<>>
                   THEN SubSeq(@, 1, i - 1) \o SubSeq(@, i + 1, Len(@))
                   ELSE [@ EXCEPT ![i] = rest]]
            /\ UNCHANGED <<sideVars, raced, trust, pendingSessionOffers, sessionKeys, ephCount,
                           sessionRace, vault, journal, incomingChunks,
                           remoteUpdateInProgress, now, edits>>

\* handleMessage, FILE_DELETE
HandleFileDeleteMessage(d) ==
    LET p == PeerOf(d)
        msg == Head(chan[p][d])
        path == msg.filePath
    IN  /\ HasMessage(d, p, "FILE_DELETE")
        /\ remoteUpdateInProgress' = [remoteUpdateInProgress EXCEPT ![d] = @ \cup {path}]
        /\ vault' = [vault EXCEPT ![d][path] = NoFile]
        /\ journal' = [journal EXCEPT ![d] = mark_file_deleted(@, path, now).journal]
        /\ Deliver(d, p, <<>>)
        /\ UNCHANGED <<sideVars, raced, trust, pendingSessionOffers, sessionKeys, ephCount, sessionRace,
                       incomingChunks, outgoing, now, edits>>

\* handleMessage, FILE_CHUNK, with reassembleAndWrite once the transfer is complete
HandleFileChunk(d) ==
    LET p == PeerOf(d)
        msg == Head(chan[p][d])
        path == msg.filePath
        sessionKey == sessionKeys[d][p]
        offer == sessionKey = NoSession /\ WillOffer(d, p)
        eph == NewEphemeral(d, p)
        current == incomingChunks[d][p][path]
        transfer == BufferChunk(current, msg)
        complete == IsComplete(transfer)
        r == Reassemble(transfer, sessionKey)
        written == sessionKey # NoSession /\ complete /\ r.ok
    IN  /\ HasMessage(d, p, "FILE_CHUNK")
        /\ pendingSessionOffers' = [pendingSessionOffers EXCEPT ![d][p] =
               IF offer THEN eph ELSE @]
        /\ ephCount' = [ephCount EXCEPT ![d][p] = IF offer THEN @ + 1 ELSE @]
        /\ Deliver(d, p, IF offer THEN <<SessionOffer(d, eph)>> ELSE <<>>)
        /\ incomingChunks' = [incomingChunks EXCEPT ![d][p][path] =
               IF sessionKey = NoSession THEN @
               ELSE IF complete THEN NoTransfer ELSE transfer]
        /\ vault' = [vault EXCEPT ![d][path] =
               IF written THEN File(r.content, now) ELSE @]
        /\ journal' = [journal EXCEPT ![d] =
               IF written THEN update_file(@, path, r.content, now).journal ELSE @]
        /\ remoteUpdateInProgress' = [remoteUpdateInProgress EXCEPT ![d] =
               IF written THEN @ \cup {path} ELSE @]
        /\ raced' = (raced \/ RaceState')
        /\ UNCHANGED <<sideVars, trust, sessionKeys, sessionRace, outgoing, now, edits>>

\* the timer that ends the suppression of a path after a remote write or delete
RemoteUpdateTimeout(d) ==
    \E path \in remoteUpdateInProgress[d] :
        /\ remoteUpdateInProgress' = [remoteUpdateInProgress EXCEPT ![d] = @ \ {path}]
        /\ UNCHANGED <<sideVars, raced, trust, pendingSessionOffers, sessionKeys, ephCount, sessionRace,
                       chan, vault, journal, incomingChunks, outgoing, now, edits>>

(***************************************************************************)
(* SyncService: local vault changes                                        *)
(***************************************************************************)
EditPaths == {"a.md"}

\* the user creates or modifies a file: handleFileCreate / handleFileModify,
\* processFile and syncFileToAllPeers
handleFileModify(d) ==
    \E path \in EditPaths, content \in Contents :
        LET p == PeerOf(d)
            suppressed == path \in remoteUpdateInProgress[d]
            r == update_file(journal[d], path, content, now)
            changed == ~suppressed /\ r.changed
            sessionKey == sessionKeys[d][p]
            sync == changed /\ isDevicePaired(d, p)
            offer == sync /\ sessionKey = NoSession /\ WillOffer(d, p)
            eph == NewEphemeral(d, p)
        IN  /\ edits < MaxEdits
            /\ edits' = edits + 1
            /\ vault' = [vault EXCEPT ![d][path] = File(content, now)]
            /\ journal' = [journal EXCEPT ![d] = IF suppressed THEN @ ELSE r.journal]
            /\ pendingSessionOffers' = [pendingSessionOffers EXCEPT ![d][p] =
                   IF offer THEN eph ELSE @]
            /\ ephCount' = [ephCount EXCEPT ![d][p] = IF offer THEN @ + 1 ELSE @]
            /\ chan' = [chan EXCEPT ![d][p] =
                   IF offer THEN Append(@, SessionOffer(d, eph)) ELSE @]
            /\ outgoing' = [outgoing EXCEPT ![d] =
                   IF sync /\ sessionKey # NoSession
                   THEN Append(@, Transfer(p, path, content, sessionKey))
                   ELSE @]
            /\ raced' = (raced \/ RaceState')
            /\ UNCHANGED <<sideVars, trust, sessionKeys, sessionRace, incomingChunks,
                           remoteUpdateInProgress, now>>

\* the user deletes a file: handleFileDelete and broadcastDelete
handleFileDelete(d) ==
    \E path \in EditPaths :
        LET p == PeerOf(d)
            suppressed == path \in remoteUpdateInProgress[d]
        IN  /\ edits < MaxEdits
            /\ vault[d][path].exists
            /\ edits' = edits + 1
            /\ vault' = [vault EXCEPT ![d][path] = NoFile]
            /\ journal' = [journal EXCEPT ![d] =
                   IF suppressed THEN @ ELSE mark_file_deleted(@, path, now).journal]
            /\ chan' = [chan EXCEPT ![d][p] =
                   IF ~suppressed /\ isDevicePaired(d, p)
                   THEN Append(@, [type |-> "FILE_DELETE", filePath |-> path])
                   ELSE @]
            /\ UNCHANGED <<sideVars, raced, trust, pendingSessionOffers, sessionKeys, ephCount,
                           sessionRace, incomingChunks, remoteUpdateInProgress,
                           outgoing, now>>

\* time passes
Tick ==
    /\ \E t \in TimeVals : t > now /\ now' = t
    /\ UNCHANGED <<sideVars, raced, trust, pendingSessionOffers, sessionKeys, ephCount, sessionRace,
                   chan, vault, journal, incomingChunks, remoteUpdateInProgress,
                   outgoing, edits>>

(***************************************************************************)
(* The protocol                                                            *)
(***************************************************************************)
\* the journal after scanVault
RECURSIVE ScanVault(_, _, _)
ScanVault(v, j, i) ==
    IF i > Len(PathOrder) THEN j
    ELSE LET path == PathOrder[i]
         IN  ScanVault(v,
                       IF v[path].exists
                       THEN update_file(j, path, v[path].content, v[path].mtime).journal
                       ELSE j,
                       i + 1)

TrustChoices(e) == {NoKey, IdentityKey(e), StaleKey(e)}
InitialFiles == {NoFile, File(<<"x">>, 0)}

RcIdle ==
    /\ rcVault = [path \in Paths |-> NoFile]
    /\ rcJournal = EmptyJournal
    /\ rcRemote = <<>>
    /\ rcChanges = <<>>
    /\ rcDone = FALSE
    /\ rcSelf = FALSE

CmIdle ==
    /\ cmChanges = <<>>
    /\ cmPlanned = FALSE
    /\ cmModal = "none"
    /\ cmSent = <<>>
    /\ cmDeleted = {}
    /\ cmTransfers = <<>>

NoSecond == <<"none">>

TxIdle ==
    /\ writing = <<>>
    /\ vaultEvents = <<>>
    /\ txContent = <<>>
    /\ txOrder = <<>>
    /\ txSecond = NoSecond
    /\ txPhase = 0
    /\ txSent = <<>>
    /\ txWrites = <<>>
    /\ txDelivered = 0

\* the devices of a pairing run: the one that shows a code, the one that enters
\* it, and a third device on the same network
PairResponder == "dA"
PairInitiator == "dB"
PairOther == "dC"
PairDevices == {PairResponder, PairInitiator, PairOther}
RequestIds == {"r1", "r2"}
NoCode == "null"
NoGeneration == [code |-> NoCode, at |-> 0, uses |-> 0]
NoHandled == [type |-> "none", msg |-> <<>>, active |-> NoCode, pending |-> FALSE,
              sent |-> {}, emitted |-> {}]

\* no TransferStatus under the file key
NoStatus == [present |-> FALSE, state |-> "none", progress |-> <<0, 1>>]

\* the peers another device can announce itself as, and the addresses it sends from
DsPeers == {"a1", "b1"}
DsAddresses == {"ip1", "ip2"}
NoPeer == [present |-> FALSE, last_seen_timestamp |-> 0, addresses |-> {}]
NoTimer == [armed |-> FALSE, due |-> 0]
NoOp == [op |-> "none", id |-> "", ip |-> "", emitted |-> <<>>]

NoLength == -1

MaxConns == 2
Conns == 1..MaxConns
NoConn == 0
NoDevice == "none"
NoSocket == [client |-> NoDevice, ready |-> {}, open |-> FALSE, closed |-> {}]
NoStep == [op |-> "none", conn |-> NoConn, device |-> NoDevice, disconnected |-> FALSE]

TmIdle == suppressTimers = [path \in Paths |-> 0]

SockIdle ==
    /\ tcpSockets = [c \in Conns |-> NoSocket]
    /\ tcpTable = [d \in Devices |-> NoConn]
    /\ tcpPipe = [c \in Conns |-> [d \in Devices |-> <<>>]]
    /\ tcpLog = [d \in Devices |-> <<>>]
    /\ tcpSent = 0
    /\ tcpLast = NoStep

FrIdle ==
    /\ wire = <<>>
    /\ framesWritten = <<>>
    /\ buffer = <<>>
    /\ expectedLength = NoLength
    /\ frameLog = <<>>
    /\ bytesRead = 0

ActIdle ==
    /\ lastActivityTime = 0
    /\ lastMessageTime = 0
    /\ tcpPeers = {}
    /\ actClock = 0
    /\ actLast = "none"

DsIdle ==
    /\ isDiscovering = FALSE
    /\ peers = [id \in DsPeers |-> NoPeer]
    /\ ttlTimers = [id \in DsPeers |-> NoTimer]
    /\ nodePeers = [id \in DsPeers |-> 0]
    /\ broadcastInterval = FALSE
    /\ pruneInterval = FALSE
    /\ dsClock = 0
    /\ dsLast = NoOp
    /\ udpSockets = 0
    /\ intervals = 0

AsmIdle ==
    /\ activeTransfers = [path \in Paths |-> NoStatus]
    /\ notices = <<>>

ConnIdle ==
    /\ creating = [d \in Devices |-> <<>>]
    /\ connections = [up |-> TRUE, drops |-> 0]

PairIdle ==
    /\ activePairingCode = NoCode
    /\ codeTimers = {}
    /\ pendingRequests = {}
    /\ pairedDevices = [d \in PairDevices |-> {}]
    /\ net = {}
    /\ pairClock = 0
    /\ generated = NoGeneration
    /\ outcome = [r \in RequestIds |-> "none"]
    /\ handled = NoHandled

Init ==
    /\ trust \in {t \in [Devices -> [Devices -> {NoKey} \cup UNION {TrustChoices(e) : e \in Devices}]] :
                     \A d, e \in Devices :
                         t[d][e] \in (IF d = e THEN {NoKey} ELSE TrustChoices(e))}
    /\ pendingSessionOffers = [d \in Devices |-> [p \in Devices |-> NoOffer]]
    /\ sessionKeys = [d \in Devices |-> [p \in Devices |-> NoSession]]
    /\ ephCount = [d \in Devices |-> [p \in Devices |-> 0]]
    /\ sessionRace = [d \in Devices |-> [p \in Devices |-> "none"]]
    /\ chan = [s \in Devices |-> [r \in Devices |-> <<>>]]
    /\ vault \in [Devices -> {v \in [Paths -> InitialFiles] :
                                 \A path \in Paths \ EditPaths : v[path] = NoFile}]
    /\ journal = [d \in Devices |-> ScanVault(vault[d], EmptyJournal, 1)]
    /\ incomingChunks = [d \in Devices |-> [p \in Devices |-> [path \in Paths |-> NoTransfer]]]
    /\ remoteUpdateInProgress = [d \in Devices |-> {}]
    /\ outgoing = [d \in Devices |-> <<>>]
    /\ now = 1
    /\ edits = 0
    /\ raced = FALSE
    /\ RcIdle
    /\ CmIdle
    /\ TxIdle
    /\ PairIdle
    /\ ConnIdle
    /\ AsmIdle
    /\ DsIdle
    /\ ActIdle
    /\ FrIdle
    /\ SockIdle
    /\ TmIdle

ProtocolStep ==
    \E d \in Devices :
        \/ InitiateSession(d)
        \/ HandleSessionOffer(d)
        \/ HandleSessionAnswer(d)
        \/ handleSyncRequest(d)
        \/ handleSyncResponse(d)
        \/ HandleFileRequest(d)
        \/ SendChunk(d)
        \/ HandleFileDeleteMessage(d)
        \/ HandleFileChunk(d)
        \/ RemoteUpdateTimeout(d)
        \/ handleFileModify(d)
        \/ handleFileDelete(d)

Next == ProtocolStep \/ Tick

Spec == Init /\ [][Next]_vars

(***************************************************************************)
(* Properties of the session handshake                                     *)
(***************************************************************************)
MutualTrust == \A d \in Devices : trust[d][PeerOf(d)] = IdentityKey(PeerOf(d))

IsHandshakeMessage(msg) == msg.type \in {"SESSION_OFFER", "SESSION_ANSWER"}
HandshakeDone ==
    \A d \in Devices :
        \A i \in 1..Len(chan[d][PeerOf(d)]) : ~IsHandshakeMessage(chan[d][PeerOf(d)][i])

Leader == CHOOSE d \in Devices : LexLess(d, PeerOf(d))
Follower == PeerOf(Leader)

OneSharedKey ==
    /\ sessionKeys[Leader][Follower] # NoSession
    /\ sessionKeys[Leader][Follower] = sessionKeys[Follower][Leader]

\* the Leader drops an offer that arrives while its own is pending
LeaderIgnores ==
    (/\ HasMessage(Leader, Follower, "SESSION_OFFER")
     /\ pendingSessionOffers[Leader][Follower] # NoOffer
     /\ chan'[Follower][Leader] = Tail(chan[Follower][Leader]))
    => /\ pendingSessionOffers'[Leader] = pendingSessionOffers[Leader]
       /\ sessionKeys'[Leader] = sessionKeys[Leader]
       /\ chan'[Leader][Follower] = chan[Leader][Follower]

\* the Follower gives up its pending offer and answers the Leader's
FollowerYields ==
    (/\ HasMessage(Follower, Leader, "SESSION_OFFER")
     /\ pendingSessionOffers[Follower][Leader] # NoOffer
     /\ chan'[Leader][Follower] = Tail(chan[Leader][Follower])
     /\ MutualTrust)
    => /\ pendingSessionOffers'[Follower][Leader] = NoOffer
       /\ sessionKeys'[Follower][Leader] # NoSession
       /\ Len(chan'[Follower][Leader]) = Len(chan[Follower][Leader]) + 1
       /\ chan'[Follower][Leader][Len(chan'[Follower][Leader])].type = "SESSION_ANSWER"

C2_SessionNeedsTrust ==
    \A d \in Devices :
        sessionKeys[d][PeerOf(d)] # NoSession => trust[d][PeerOf(d)] = IdentityKey(PeerOf(d))

\* an untrusted peer's offer has been received and handled, and a trusted
\* peer's handshake on the other side has produced a key
C2_Witness ==
    \E d \in Devices :
        LET p == PeerOf(d)
        IN  /\ trust[d][p] # IdentityKey(p)
            /\ ephCount[p][d] > 0
            /\ chan[p][d] = <<>>
            /\ sessionKeys[d][p] = NoSession
            /\ trust[p][d] = IdentityKey(d)
            /\ sessionKeys[p][d] # NoSession

(***************************************************************************)
(* Properties of transfers and of the journal                              *)
(***************************************************************************)
Consumes(d, type) ==
    /\ HasMessage(d, PeerOf(d), type)
    /\ chan'[PeerOf(d)][d] = Tail(chan[PeerOf(d)][d])

SendsChunk(d) ==
    LET p == PeerOf(d)
    IN  /\ Len(chan'[d][p]) > 0
        /\ chan'[d][p][Len(chan'[d][p])].type = "FILE_CHUNK"
        /\ \/ Len(chan'[d][p]) = Len(chan[d][p]) + 1
           \/ /\ Len(chan'[d][p]) = Len(chan[d][p])
              /\ chan'[p][d] = chan[p][d]
              /\ chan'[d][p] # chan[d][p]

\* C3: a device sends a FILE_CHUNK, serves a FILE_REQUEST, buffers or applies
\* a FILE_CHUNK, or applies a FILE_DELETE only while it holds a session key
\* for the peer.
C3_TransferNeedsSession ==
    [][\A d \in Devices :
          LET hasSession == sessionKeys[d][PeerOf(d)] # NoSession
          IN  /\ SendsChunk(d) => hasSession
              /\ (Consumes(d, "FILE_REQUEST") /\ outgoing'[d] # outgoing[d]) => hasSession
              /\ (Consumes(d, "FILE_CHUNK")
                    /\ (incomingChunks'[d] # incomingChunks[d] \/ vault'[d] # vault[d]))
                 => hasSession
              /\ (Consumes(d, "FILE_DELETE") /\ vault'[d] # vault[d]) => hasSession]_vars

SessionUp == \A d \in Devices : sessionKeys[d][PeerOf(d)] # NoSession
Idle ==
    \A d \in Devices :
        /\ chan[d][PeerOf(d)] = <<>>
        /\ outgoing[d] = <<>>
        /\ \A path \in Paths : ~incomingChunks[d][PeerOf(d)][path].present
SameLiveFiles ==
    \A path \in Paths :
        /\ vault["dA"][path].exists = vault["dB"][path].exists
        /\ vault["dA"][path].content = vault["dB"][path].content

\* C4: once two paired devices with a session hold the same live files and
\* nothing is in flight, with no local change made, every reconciliation
\* between them yields no action.
C4_ConvergedStaysQuiet ==
    (edits = 0 /\ MutualTrust /\ SessionUp /\ Idle /\ SameLiveFiles) =>
        \A d \in Devices :
            ComputeChanges(vault[d], journal[d],
                           ResponseFiles(vault[PeerOf(d)], journal[PeerOf(d)])) = <<>>

MaxSequence(j) ==
    CHOOSE n \in {j.files[path].sequence : path \in Paths} :
        \A path \in Paths : j.files[path].sequence <= n

\* C5: every recordUpdate / recordDelete that changes an entry gives it a
\* sequence number above every number the journal has assigned so far, and a
\* path's sequence number never decreases.
C5_SequenceIncreases ==
    [][\A d \in Devices : \A path \in Paths :
          LET old == journal[d].files[path]
              new == journal'[d].files[path]
          IN  /\ new.sequence >= old.sequence
              /\ new # old => new.sequence > MaxSequence(journal[d])]_vars

\* an entry has been written three times, by scan, local and remote operations
C5_Witness ==
    \E d \in Devices : \E path \in Paths :
        /\ journal[d].files[path].sequence >= 3
        /\ journal[PeerOf(d)].files[path].sequence >= 2

(***************************************************************************)
(* One reconciliation in isolation: a local vault and journal and a remote *)
(* snapshot drawn from every combination of live files and tombstones      *)
(***************************************************************************)
RcFiles == {NoFile} \cup {File(<<"x">>, t) : t \in TimeVals}
Tombstone(t) == [present |-> TRUE, hash |-> Hash(<<"x">>), mtime |-> t,
                 sequence |-> 1, is_deleted |-> TRUE]
RcEntries == {NoEntry} \cup {Tombstone(t) : t \in TimeVals}
LiveEntry(file) == [present |-> TRUE, hash |-> Hash(file.content), mtime |-> file.mtime,
                    sequence |-> 1, is_deleted |-> FALSE]
RcJournal(files) == [files |-> files, global_sequence |-> Cardinality(Paths)]

\* the journals that go with a vault: a live file has its entry, a missing
\* file has no entry or a tombstone
RcJournals(v) ==
    {RcJournal(f) : f \in {g \in [Paths -> RcEntries \cup {LiveEntry(v[path]) : path \in Paths}] :
                              \A path \in Paths :
                                  IF v[path].exists THEN g[path] = LiveEntry(v[path])
                                  ELSE g[path] \in RcEntries}}

\* the snapshots a peer can send: one entry per path it has or has deleted
RcSnapshots ==
    UNION {{ResponseFiles(rv, rj) : rj \in RcJournals(rv)} : rv \in [Paths -> RcFiles]}

ProtocolIdle ==
    /\ trust = [d \in Devices |-> [e \in Devices |-> NoKey]]
    /\ pendingSessionOffers = [d \in Devices |-> [p \in Devices |-> NoOffer]]
    /\ sessionKeys = [d \in Devices |-> [p \in Devices |-> NoSession]]
    /\ ephCount = [d \in Devices |-> [p \in Devices |-> 0]]
    /\ sessionRace = [d \in Devices |-> [p \in Devices |-> "none"]]
    /\ chan = [s \in Devices |-> [r \in Devices |-> <<>>]]
    /\ vault = [d \in Devices |-> [path \in Paths |-> NoFile]]
    /\ journal = [d \in Devices |-> EmptyJournal]
    /\ incomingChunks = [d \in Devices |-> [p \in Devices |-> [path \in Paths |-> NoTransfer]]]
    /\ remoteUpdateInProgress = [d \in Devices |-> {}]
    /\ outgoing = [d \in Devices |-> <<>>]
    /\ now = 1
    /\ edits = 0
    /\ raced = FALSE

InitReconcile ==
    /\ ProtocolIdle
    /\ CmIdle
    /\ TxIdle
    /\ PairIdle
    /\ ConnIdle
    /\ AsmIdle
    /\ DsIdle
    /\ ActIdle
    /\ FrIdle
    /\ SockIdle
    /\ TmIdle
    /\ rcVault \in [Paths -> RcFiles]
    /\ rcJournal \in RcJournals(rcVault)
    /\ rcRemote \in RcSnapshots
    /\ rcChanges = <<>>
    /\ rcDone = FALSE
    /\ rcSelf = FALSE

\* the device is sent the snapshot that handleSyncRequest makes of its own state
SelfSnapshot ==
    /\ ~rcDone /\ ~rcSelf
    /\ rcRemote' = ResponseFiles(rcVault, rcJournal)
    /\ rcSelf' = TRUE
    /\ UNCHANGED <<notRcVars, rcVault, rcJournal, rcChanges, rcDone>>

\* handleSyncResponse computes its plan
Reconcile ==
    /\ ~rcDone
    /\ rcChanges' = ComputeChanges(rcVault, rcJournal, rcRemote)
    /\ rcDone' = TRUE
    /\ UNCHANGED <<notRcVars, rcVault, rcJournal, rcRemote, rcSelf>>

NextReconcile == SelfSnapshot \/ Reconcile

SpecReconcile == InitReconcile /\ [][NextReconcile]_vars

(***************************************************************************)
(* Properties of the reconciliation plan                                   *)
(***************************************************************************)
ChangesFor(path) == SelectSeq(rcChanges, LAMBDA c : c.path = path)
RemoteFor(path) == SelectSeq(rcRemote, LAMBDA f : f.path = path)
RemoteLive(path) == RemoteFor(path) # <<>> /\ ~RemoteFor(path)[1].isDeleted
RemoteDeleted(path) == RemoteFor(path) # <<>> /\ RemoteFor(path)[1].isDeleted
RemoteMtime(path) == ParseBigInt(RemoteFor(path)[1].mtime)
LocalTombstone(path) ==
    rcJournal.files[path].present /\ rcJournal.files[path].is_deleted
Types(changes) == [i \in 1..Len(changes) |-> changes[i].type]

\* C6: reconciling a device's state against the SYNC_RESPONSE made of that
\* same state (live files with their mtimes, and tombstones) yields an empty
\* plan, "up to date".
C6_SelfReconcileEmpty ==
    (rcDone /\ rcSelf) => (rcChanges = <<>> /\ UpToDate(rcChanges))

C6_Witness ==
    /\ rcDone /\ rcSelf /\ UpToDate(rcChanges)
    /\ \E path \in Paths : rcVault[path].exists /\ RemoteLive(path)
    /\ \E path \in Paths : LocalTombstone(path) /\ RemoteDeleted(path)

\* C7: for a path live locally at t1 and a tombstone at t2 in the remote
\* snapshot, the plan has exactly delete(path) if t2 > t1 and nothing for the
\* path if t2 < t1.
C7_RemoteTombstone ==
    \A path \in Paths :
        (rcDone /\ rcVault[path].exists /\ RemoteDeleted(path)) =>
            /\ RemoteMtime(path) > rcVault[path].mtime =>
                   Types(ChangesFor(path)) = <<"delete">>
            /\ RemoteMtime(path) < rcVault[path].mtime => ChangesFor(path) = <<>>

C7_Witness ==
    /\ rcDone
    /\ \E path \in Paths :
           /\ rcVault[path].exists /\ RemoteDeleted(path)
           /\ RemoteMtime(path) > rcVault[path].mtime
           /\ Types(ChangesFor(path)) = <<"delete">>
    /\ \E path \in Paths :
           /\ rcVault[path].exists /\ RemoteDeleted(path)
           /\ RemoteMtime(path) < rcVault[path].mtime
           /\ ChangesFor(path) = <<>>

\* C8: for a path live on both sides, the plan has pull(path) exactly when
\* R - L > 2000, push(path) exactly when L - R > 2000, nothing for the path
\* when the two are within 2000 ms, and never both.
C8_LiveBothSides ==
    \A path \in Paths :
        (rcDone /\ rcVault[path].exists /\ RemoteLive(path)) =>
            LET L == rcVault[path].mtime
                R == RemoteMtime(path)
                types == Types(ChangesFor(path))
            IN  /\ (types = <<"pull">>) <=> (R - L > 2000)
                /\ (types = <<"push">>) <=> (L - R > 2000)
                /\ (types = <<>>) <=> (R - L <= 2000 /\ L - R <= 2000)
                /\ Len(types) <= 1

C8_Witness ==
    /\ rcDone
    /\ \E path \in Paths :
           /\ rcVault[path].exists /\ RemoteLive(path)
           /\ RemoteMtime(path) - rcVault[path].mtime = 2001
           /\ Types(ChangesFor(path)) = <<"pull">>
    /\ \E path \in Paths :
           /\ rcVault[path].exists /\ RemoteLive(path)
           /\ rcVault[path].mtime - RemoteMtime(path) = 2000
           /\ ChangesFor(path) = <<>>

\* C9: for a path live in the remote snapshot at R with no local file, the
\* plan has pull(path), unless the local journal has a tombstone for it with
\* deletion time D > R: then it has the push of the deletion, which sends
\* FILE_DELETE, and no pull.
C9_MissingLocally ==
    \A path \in Paths :
        (rcDone /\ ~rcVault[path].exists /\ RemoteLive(path)) =>
            IF LocalTombstone(path) /\ rcJournal.files[path].mtime > RemoteMtime(path)
            THEN /\ ChangesFor(path) = <<Change(path, "push", "Local deletion is newer")>>
                 /\ PlanMessages(ChangesFor(path)) =
                        <<[type |-> "FILE_DELETE", filePath |-> path]>>
            ELSE /\ Types(ChangesFor(path)) = <<"pull">>
                 /\ PlanMessages(ChangesFor(path)) =
                        <<[type |-> "FILE_REQUEST", filePath |-> path]>>

C9_Witness ==
    /\ rcDone
    /\ \E path \in Paths :
           /\ ~rcVault[path].exists /\ RemoteLive(path) /\ LocalTombstone(path)
           /\ rcJournal.files[path].mtime > RemoteMtime(path)
           /\ PlanMessages(ChangesFor(path)) = <<[type |-> "FILE_DELETE", filePath |-> path]>>
    /\ \E path \in Paths :
           /\ ~rcVault[path].exists /\ RemoteLive(path) /\ LocalTombstone(path)
           /\ rcJournal.files[path].mtime < RemoteMtime(path)
           /\ Types(ChangesFor(path)) = <<"pull">>

\* C10: every local live path that the remote snapshot does not mention gets
\* exactly one push(path), and no path the snapshot mentions gets a push on
\* this ground.
C10_MissingRemotely ==
    rcDone =>
        /\ \A path \in Paths :
               (rcVault[path].exists /\ RemoteFor(path) = <<>>) =>
                   ChangesFor(path) = <<Change(path, "push", "Remote missing file")>>
        /\ \A i \in 1..Len(rcChanges) :
               rcChanges[i].reason = "Remote missing file" =>
                   RemoteFor(rcChanges[i].path) = <<>>

C10_Witness ==
    /\ rcDone
    /\ \E path \in Paths :
           /\ rcVault[path].exists /\ RemoteFor(path) = <<>>
           /\ ChangesFor(path) = <<Change(path, "push", "Remote missing file")>>
    /\ \E path \in Paths :
           /\ rcVault[path].exists /\ RemoteDeleted(path)
           /\ \A i \in 1..Len(ChangesFor(path)) : ChangesFor(path)[i].type # "push"

(***************************************************************************)
(* The end of handleSyncResponse in isolation: a plan of up to MaxPlan     *)
(* changes, the threshold, the ConfirmationModal and executeSync.  The     *)
(* plan's paths are note 1 .. note n, each file present in the vault.      *)
(***************************************************************************)
ChangeKinds ==
    {<<"delete", "Remote deletion is newer">>, <<"pull", "New remote file">>,
     <<"push", "Local deletion is newer">>, <<"push", "Remote missing file">>}

\* the plans: n changes whose kinds alternate between two drawn kinds
CmPlans ==
    {[i \in 1..n |-> Change(i, k[(i % 2) + 1][1], k[(i % 2) + 1][2])] :
        n \in 0..MaxPlan, k \in [1..2 -> ChangeKinds]}

InitConfirm ==
    /\ ProtocolIdle
    /\ RcIdle
    /\ TxIdle
    /\ PairIdle
    /\ ConnIdle
    /\ AsmIdle
    /\ DsIdle
    /\ ActIdle
    /\ FrIdle
    /\ SockIdle
    /\ TmIdle
    /\ cmChanges \in CmPlans
    /\ cmPlanned = FALSE
    /\ cmModal = "none"
    /\ cmSent = <<>>
    /\ cmDeleted = {}
    /\ cmTransfers = <<>>

\* executeSync over the whole plan
ExecuteSync ==
    /\ cmSent' = PlanMessages(cmChanges)
    /\ cmDeleted' = DeletePaths(cmChanges)
    /\ cmTransfers' = PushPaths(cmChanges)

\* handleSyncResponse from "Process Plan" on
ProcessPlan ==
    /\ ~cmPlanned
    /\ cmPlanned' = TRUE
    /\ IF UpToDate(cmChanges)
       THEN UNCHANGED <<cmModal, cmSent, cmDeleted, cmTransfers>>
       ELSE IF NeedsConfirmation(cmChanges)
       THEN cmModal' = "open" /\ UNCHANGED <<cmSent, cmDeleted, cmTransfers>>
       ELSE ExecuteSync /\ UNCHANGED cmModal
    /\ UNCHANGED <<notCmVars, cmChanges>>

\* ConfirmationModal, "Sync Now": onConfirm, then close
ConfirmSync ==
    /\ cmModal = "open"
    /\ ExecuteSync
    /\ cmModal' = "confirmed"
    /\ UNCHANGED <<notCmVars, cmChanges, cmPlanned>>

\* ConfirmationModal, "Cancel": close
CancelSync ==
    /\ cmModal = "open"
    /\ cmModal' = "cancelled"
    /\ UNCHANGED <<notCmVars, cmChanges, cmPlanned, cmSent, cmDeleted, cmTransfers>>

NextConfirm == ProcessPlan \/ ConfirmSync \/ CancelSync

SpecConfirm == InitConfirm /\ [][NextConfirm]_vars

NothingExecuted == cmSent = <<>> /\ cmDeleted = {} /\ cmTransfers = <<>>
AllExecuted ==
    /\ cmSent = PlanMessages(cmChanges)
    /\ cmDeleted = DeletePaths(cmChanges)
    /\ cmTransfers = PushPaths(cmChanges)
    /\ Len(cmSent) + Cardinality(cmDeleted) + Len(cmTransfers) = Len(cmChanges)

\* C11: a plan of more than 10 changes executes nothing (no local delete,
\* FILE_REQUEST, FILE_DELETE or transfer) until the user confirms and
\* nothing at all if the user cancels; a plan of 1 to 10 changes is executed
\* at once, without the modal.
C11_ConfirmLargePlans ==
    /\ (cmPlanned /\ Len(cmChanges) > 10) =>
           /\ cmModal \in {"open", "confirmed", "cancelled"}
           /\ cmModal \in {"open", "cancelled"} => NothingExecuted
           /\ cmModal = "confirmed" => AllExecuted
    /\ (cmPlanned /\ Len(cmChanges) \in 1..10) => (cmModal = "none" /\ AllExecuted)
    /\ ~cmPlanned => NothingExecuted

C11_Witness ==
    /\ cmPlanned /\ Len(cmChanges) = 11 /\ cmModal = "cancelled" /\ NothingExecuted
    /\ \E i \in 1..Len(cmChanges) : cmChanges[i].type = "delete"
    /\ \E i \in 1..Len(cmChanges) : cmChanges[i].type = "pull"

(***************************************************************************)
(* One inbound transfer in isolation.  "dA" holds a.md and sends it to     *)
(* "dB" over an established session; the FILE_CHUNKs arrive in a drawn     *)
(* order, and a second transferFile of the same path may follow.  The      *)
(* FILE_CHUNK handler is followed across the await of writeBinary: the     *)
(* messages of one data event are all dispatched before a write completes. *)
(***************************************************************************)
Sender == "dA"
Receiver == "dB"
TxPath == "a.md"
Bytes == {"x", "y"}
TxContents == UNION {[1..n -> Bytes] : n \in 0..MaxChunks}
TxSecondContents == {<<"y">>, <<"y", "x">>}
TxKey == compute_shared_secret(<<Sender, Receiver, 1>>, <<Receiver, Sender, 1>>)

ArrivalOrders(n) == {f \in [1..n -> 1..n] : \A i, k \in 1..n : f[i] = f[k] => i = k}
Permute(msgs, order) == [i \in 1..Len(msgs) |-> msgs[order[i]]]

InitTransfer ==
    /\ txContent \in TxContents
    /\ txOrder \in ArrivalOrders(Len(TransferMessages(TxPath, txContent, TxKey)))
    /\ txSecond \in {NoSecond} \cup TxSecondContents
    /\ txPhase = 0
    /\ txSent = <<>>
    /\ txWrites = <<>>
    /\ txDelivered = 0
    /\ writing = <<>>
    /\ vaultEvents = <<>>
    /\ trust = [d \in Devices |-> [e \in Devices |-> IF d = e THEN NoKey ELSE IdentityKey(e)]]
    /\ pendingSessionOffers = [d \in Devices |-> [p \in Devices |-> NoOffer]]
    /\ sessionKeys = [d \in Devices |-> [p \in Devices |-> IF d = p THEN NoSession ELSE TxKey]]
    /\ ephCount = [d \in Devices |-> [p \in Devices |-> IF d = p THEN 0 ELSE 1]]
    /\ sessionRace = [d \in Devices |-> [p \in Devices |-> "none"]]
    /\ chan = [s \in Devices |-> [r \in Devices |-> <<>>]]
    /\ vault = [d \in Devices |-> [path \in Paths |->
                   IF d = Sender /\ path = TxPath THEN File(txContent, 0) ELSE NoFile]]
    /\ journal = [d \in Devices |-> ScanVault(vault[d], EmptyJournal, 1)]
    /\ incomingChunks = [d \in Devices |-> [p \in Devices |-> [path \in Paths |-> NoTransfer]]]
    /\ remoteUpdateInProgress = [d \in Devices |-> {}]
    /\ outgoing = [d \in Devices |-> <<>>]
    /\ now = 1
    /\ edits = 0
    /\ raced = FALSE
    /\ RcIdle
    /\ CmIdle
    /\ PairIdle
    /\ ConnIdle
    /\ AsmIdle
    /\ DsIdle
    /\ ActIdle
    /\ FrIdle
    /\ SockIdle
    /\ TmIdle

\* transferFile on the sender; its chunks reach the receiver in the order txOrder
TransferFile ==
    LET msgs == TransferMessages(TxPath, vault[Sender][TxPath].content,
                                 sessionKeys[Sender][Receiver])
    IN  /\ txPhase = 0
        /\ txPhase' = 1
        /\ txSent' = msgs
        /\ chan' = [chan EXCEPT ![Sender][Receiver] = @ \o Permute(msgs, txOrder)]
        /\ UNCHANGED <<sessionVars, rcVars, cmVars, pairVars, tmVars, sockVars, frVars, actVars, dsVars, asmVars, connVars, vault, journal, incomingChunks,
                       remoteUpdateInProgress, outgoing, writing, vaultEvents,
                       txContent, txOrder, txSecond, txWrites, txDelivered>>

\* the file changes on the sender and is transferred again
TransferAgain ==
    /\ txPhase = 1
    /\ txSecond # NoSecond
    /\ txPhase' = 2
    /\ vault' = [vault EXCEPT ![Sender][TxPath] = File(txSecond, now)]
    /\ journal' = [journal EXCEPT ![Sender] = update_file(@, TxPath, txSecond, now).journal]
    /\ chan' = [chan EXCEPT ![Sender][Receiver] =
           @ \o TransferMessages(TxPath, txSecond, sessionKeys[Sender][Receiver])]
    /\ UNCHANGED <<sessionVars, rcVars, cmVars, pairVars, tmVars, sockVars, frVars, actVars, dsVars, asmVars, connVars, incomingChunks, remoteUpdateInProgress,
                   outgoing, writing, vaultEvents, txContent, txOrder, txSecond, txSent,
                   txWrites, txDelivered>>

\* handleMessage, FILE_CHUNK, with a session key: buffer the chunk and, once
\* chunks.size === total, run reassembleAndWrite up to its await of writeBinary
ReceiveChunk ==
    LET d == Receiver
        p == Sender
        msg == Head(chan[p][d])
        path == msg.filePath
        sessionKey == sessionKeys[d][p]
        transfer == BufferChunk(incomingChunks[d][p][path], msg)
        r == Reassemble(transfer, sessionKey)
    IN  /\ HasMessage(d, p, "FILE_CHUNK")
        /\ sessionKey # NoSession
        /\ Deliver(d, p, <<>>)
        /\ txDelivered' = txDelivered + 1
        /\ IF IsComplete(transfer) /\ r.ok
           THEN /\ incomingChunks' = [incomingChunks EXCEPT ![d][p][path] = transfer]
                /\ remoteUpdateInProgress' = [remoteUpdateInProgress EXCEPT ![d] = @ \cup {path}]
                /\ writing' = Append(writing, [peerId |-> p, path |-> path, content |-> r.content])
                /\ txWrites' = Append(txWrites, r.content)
           ELSE /\ incomingChunks' = [incomingChunks EXCEPT ![d][p][path] =
                       IF IsComplete(transfer) THEN NoTransfer ELSE transfer]
                /\ UNCHANGED <<remoteUpdateInProgress, writing, txWrites>>
        /\ UNCHANGED <<sessionVars, rcVars, cmVars, pairVars, tmVars, sockVars, frVars, actVars, dsVars, asmVars, connVars, vault, journal, outgoing, vaultEvents,
                       txContent, txOrder, txSecond, txPhase, txSent>>

\* a write whose journal entry is never made
RecordWrite_none(j, path, content, mtime) == j

\* reassembleAndWrite records the file it wrote in the journal
RecordWrite(j, path, content, mtime) == update_file(j, path, content, mtime).journal

\* writeBinary resolves: the file is in the vault, reassembleAndWrite records
\* it and sets the timer, and the handler drops the buffered transfer
WriteDone ==
    LET d == Receiver
        w == Head(writing)
    IN  /\ writing # <<>>
        /\ writing' = Tail(writing)
        /\ vault' = [vault EXCEPT ![d][w.path] = File(w.content, now)]
        /\ journal' = [journal EXCEPT ![d] = RecordWrite(@, w.path, w.content, now)]
        /\ vaultEvents' = Append(vaultEvents, w.path)
        /\ incomingChunks' = [incomingChunks EXCEPT ![d][w.peerId][w.path] = NoTransfer]
        /\ UNCHANGED <<sessionVars, rcVars, cmVars, pairVars, tmVars, sockVars, frVars, actVars, dsVars, asmVars, connVars, chan, remoteUpdateInProgress, outgoing,
                       txContent, txOrder, txSecond, txPhase, txSent, txWrites, txDelivered>>

\* handleFileCreate / handleFileModify for the event of a completed write,
\* with processFile and syncFileToAllPeers
HandleWriteEvent ==
    LET d == Receiver
        p == Sender
        path == Head(vaultEvents)
        file == vault[d][path]
        suppressed == path \in remoteUpdateInProgress[d]
        r == update_file(journal[d], path, file.content, file.mtime)
        changed == ~suppressed /\ file.exists /\ r.changed
        sessionKey == sessionKeys[d][p]
    IN  /\ vaultEvents # <<>>
        /\ vaultEvents' = Tail(vaultEvents)
        /\ journal' = [journal EXCEPT ![d] = IF changed THEN r.journal ELSE @]
        /\ outgoing' = [outgoing EXCEPT ![d] =
               IF changed /\ isDevicePaired(d, p) /\ sessionKey # NoSession
               THEN Append(@, Transfer(p, path, file.content, sessionKey))
               ELSE @]
        /\ UNCHANGED <<sessionVars, rcVars, cmVars, pairVars, tmVars, sockVars, frVars, actVars, dsVars, asmVars, connVars, chan, vault, incomingChunks,
                       remoteUpdateInProgress, writing, txContent, txOrder, txSecond,
                       txPhase, txSent, txWrites, txDelivered>>

SuppressionEnds == \E d \in Devices : RemoteUpdateTimeout(d)

NextTransfer ==
    \/ TransferFile
    \/ TransferAgain
    \/ ReceiveChunk
    \/ WriteDone
    \/ HandleWriteEvent
    \/ SuppressionEnds

SpecTransfer == InitTransfer /\ [][NextTransfer]_vars

(***************************************************************************)
(* Properties of the transfer                                              *)
(***************************************************************************)
ReceivedFile == vault[Receiver][TxPath]
TransferSettled == txPhase >= 1 /\ chan[Sender][Receiver] = <<>> /\ writing = <<>>
ArrivedIndices == [i \in 1..Len(txOrder) |-> txSent[txOrder[i]].chunkIndex]

\* C12: the receiver writes the bytes of the file that was sent as N chunks
\* whatever the order in which the N FILE_CHUNKs arrive: the chunks are put
\* together by chunkIndex, not by arrival.
C12_ReassemblyIgnoresArrivalOrder ==
    /\ txWrites # <<>> => txWrites[1] = txContent
    /\ (txSecond = NoSecond /\ ReceivedFile.exists) => ReceivedFile.content = txContent

C12_Witness ==
    /\ txPhase = 1 /\ txSecond = NoSecond
    /\ txContent = <<"x", "y", "y">>
    /\ ArrivedIndices = <<2, 0, 1>>
    /\ TransferSettled
    /\ ReceivedFile.exists /\ ReceivedFile.content = txContent

\* C13: transferring an empty file sends exactly one FILE_CHUNK, with
\* chunkIndex 0, totalChunks 1 and zero plaintext bytes, and the receiver
\* then writes a zero-byte file at the path.
C13_EmptyFileOneChunk ==
    (txPhase >= 1 /\ txContent = <<>>) =>
        /\ Len(txSent) = 1
        /\ txSent[1].chunkIndex = 0 /\ txSent[1].totalChunks = 1
        /\ decrypt_chunk(txSent[1], TxKey) = <<>>
        /\ (TransferSettled /\ txSecond = NoSecond) =>
               (ReceivedFile.exists /\ Len(ReceivedFile.content) = 0)

C13_Witness ==
    /\ txContent = <<>> /\ txSecond = NoSecond /\ TransferSettled
    /\ txDelivered = 1 /\ txWrites = <<(<<>>)>>
    /\ ReceivedFile.exists /\ ReceivedFile.content = <<>>

FirstComplete == txPhase >= 1 /\ txDelivered >= Len(txSent)
SecondComplete ==
    /\ txPhase = 2
    /\ txDelivered >= Len(txSent) + Len(TransferMessages(TxPath, txSecond, TxKey))
CompletedTransfers ==
    (IF FirstComplete THEN 1 ELSE 0) + (IF SecondComplete THEN 1 ELSE 0)

\* C14: an inbound transfer is written once per completed transfer and only
\* after all its totalChunks indices are buffered: at every moment the
\* receiver has started no more writes than transfers have arrived in full,
\* also when chunks of the same (peerId, filePath) arrive during a write.
C14_AppliedOncePerTransfer == Len(txWrites) <= CompletedTransfers

\* C15: a file written for a received transfer is recorded in the journal,
\* and the vault event of that write starts no outbound transfer.
C15_WriteNotRebroadcast ==
    /\ outgoing[Receiver] = <<>>
    /\ (ReceivedFile.exists /\ writing = <<>>) =>
           LET e == journal[Receiver].files[TxPath]
           IN  e.present /\ ~e.is_deleted /\ e.hash = Hash(ReceivedFile.content)

C15_Witness ==
    /\ ReceivedFile.exists /\ TransferSettled
    /\ txWrites # <<>> /\ vaultEvents = <<>>
    /\ TxPath \notin remoteUpdateInProgress[Receiver]
    /\ journal[Receiver].files[TxPath].hash = Hash(ReceivedFile.content)
    /\ outgoing[Receiver] = <<>>

(***************************************************************************)
(* Pairing: SecurityService.generatePairingCode, initiatePairing,          *)
(* handlePairingRequest and handlePairingResponse, with the                *)
(* pairing_success listener of main.ts                                     *)
(***************************************************************************)
CodeLifetime == 60000        \* the expiry timer of generatePairingCode
PairingTimeoutMs == 10000    \* the timeout of initiatePairing
MaxPairTime == 70000         \* the clock stops here
MaxCodeTimers == 2           \* expiry timers armed at once
MaxRuns == 1                 \* initiatePairing calls per behaviour
MaxDatagrams == 2            \* datagrams in flight at once
MaxOverlap == 2              \* initiateSession calls of a device in progress at once
MaxDrops == 1                \* times the TCP connection drops
Codes == {"111111", "222222"}

\* requestId + publicKey, the signed bytes. A device verifies with its own
\* public key as the second part, and for one second part different request
\* ids give different bytes.
PairingData(requestId, publicKey) == <<requestId, publicKey>>

\* transport.send(message, ip): one datagram on its way to ip
Send(datagrams, msg) == datagrams \cup {msg}

PairingRequestMessage(requestId, self, target, code) ==
    [type |-> "pairing_request", to |-> target, from |-> self,
     requestId |-> requestId, initiatorDeviceId |-> self,
     initiatorPublicKey |-> IdentityKey(self), pairingCode |-> code]

PairingResponseMessage(self, msg) ==
    [type |-> "pairing_response", to |-> msg.from, from |-> self,
     requestId |-> msg.requestId, responderDeviceId |-> self,
     responderPublicKey |-> IdentityKey(self),
     signature |-> Sign(IdentityKey(self),
                        PairingData(msg.requestId, msg.initiatorPublicKey)),
     status |-> "accepted"]

CodeAccepted_any(active, code) == active # NoCode

\* the code check of handlePairingRequest
CodeAccepted(active, code) == active # NoCode /\ active = code

ResponseValid_keyOnly(self, msg) == msg.signature.key = msg.responderPublicKey

\* the signature check of handlePairingResponse
ResponseValid(self, msg) ==
    verify_signature(msg.responderPublicKey,
                     PairingData(msg.requestId, IdentityKey(self)),
                     msg.signature)

\* the pairing_success listener: settings.pairedDevices gains the device id
AddPaired(paired, deviceId) == paired \cup {deviceId}

IsPending(requestId) == \E p \in pendingRequests : p.requestId = requestId

DeletePending_keep(pending, requestId) == pending

\* pendingRequests.delete(requestId), together with the clearTimeout that
\* resolve and reject do
DeletePending(pending, requestId) == {p \in pending : p.requestId # requestId}

\* datagrams that reach the initiator from the third device: an accepted
\* response signed with the third device's own key, an accepted response in the
\* responder's name whose signature is over another request id, and a
\* rejection
ForeignResponses(requestId) ==
    {[type |-> "pairing_response", to |-> PairInitiator, from |-> PairOther,
      requestId |-> requestId, responderDeviceId |-> PairOther,
      responderPublicKey |-> IdentityKey(PairOther),
      signature |-> Sign(IdentityKey(PairOther),
                         PairingData(requestId, IdentityKey(PairInitiator))),
      status |-> "accepted"],
     [type |-> "pairing_response", to |-> PairInitiator, from |-> PairOther,
      requestId |-> requestId, responderDeviceId |-> PairOther,
      responderPublicKey |-> IdentityKey(PairOther),
      signature |-> Sign(IdentityKey(PairOther),
                         PairingData(requestId, IdentityKey(PairInitiator))),
      status |-> "rejected"]}
    \cup
    {[type |-> "pairing_response", to |-> PairInitiator, from |-> PairOther,
      requestId |-> requestId, responderDeviceId |-> PairResponder,
      responderPublicKey |-> IdentityKey(PairResponder),
      signature |-> Sign(IdentityKey(PairResponder),
                         PairingData(other, IdentityKey(PairInitiator))),
      status |-> "accepted"] : other \in RequestIds \ {requestId}}

InitPairing ==
    /\ ProtocolIdle
    /\ RcIdle
    /\ CmIdle
    /\ TxIdle
    /\ PairIdle
    /\ ConnIdle
    /\ AsmIdle
    /\ DsIdle
    /\ ActIdle
    /\ FrIdle
    /\ SockIdle
    /\ TmIdle

\* generatePairingCode on the responder
GeneratePairingCode ==
    \E code \in Codes :
        /\ Cardinality(codeTimers) < MaxCodeTimers
        /\ activePairingCode' = code
        /\ codeTimers' = codeTimers \cup {[code |-> code, due |-> pairClock + CodeLifetime]}
        /\ generated' = [code |-> code, at |-> pairClock, uses |-> 0]
        /\ UNCHANGED <<notPairVars, pendingRequests, pairedDevices, net, pairClock,
                       outcome, handled>>

\* the expiry timer of one generatePairingCode call fires
ExpireCode ==
    \E timer \in codeTimers :
        /\ timer.due <= pairClock
        /\ activePairingCode' = IF activePairingCode = timer.code THEN NoCode
                                ELSE activePairingCode
        /\ codeTimers' = codeTimers \ {timer}
        /\ UNCHANGED <<notPairVars, pendingRequests, pairedDevices, net, pairClock,
                       generated, outcome, handled>>

\* initiatePairing on the initiator, towards the responder, with the code the
\* user typed; each request id is drawn once
InitiatePairing ==
    \E requestId \in RequestIds, code \in Codes :
        /\ outcome[requestId] = "none"
        /\ pairClock + PairingTimeoutMs <= MaxPairTime
        /\ Cardinality({r \in RequestIds : outcome[r] # "none"}) < MaxRuns
        /\ Cardinality(net) < MaxDatagrams
        /\ net' = Send(net, PairingRequestMessage(requestId, PairInitiator,
                                                  PairResponder, code))
        /\ pendingRequests' = pendingRequests \cup
               {[requestId |-> requestId, due |-> pairClock + PairingTimeoutMs]}
        /\ outcome' = [outcome EXCEPT ![requestId] = "pending"]
        /\ UNCHANGED <<notPairVars, activePairingCode, codeTimers, pairedDevices,
                       pairClock, generated, handled>>

\* the timeout of a pending request fires
PairingTimeout ==
    \E p \in pendingRequests :
        /\ p.due <= pairClock
        /\ pendingRequests' = DeletePending(pendingRequests, p.requestId)
        /\ outcome' = [outcome EXCEPT ![p.requestId] = "Pairing timed out"]
        /\ UNCHANGED <<notPairVars, activePairingCode, codeTimers, pairedDevices, net,
                       pairClock, generated, handled>>

\* handlePairingRequest on the responder, and the listener it triggers
HandlePairingRequest ==
    \E msg \in net :
        /\ msg.type = "pairing_request"
        /\ LET accepted == CodeAccepted(activePairingCode, msg.pairingCode)
               response == PairingResponseMessage(msg.to, msg)
           IN  /\ net' = IF accepted THEN Send(net \ {msg}, response) ELSE net \ {msg}
               /\ pairedDevices' =
                      IF accepted
                      THEN [pairedDevices EXCEPT
                                ![msg.to] = AddPaired(@, msg.initiatorDeviceId)]
                      ELSE pairedDevices
               /\ handled' = [type |-> "pairing_request", msg |-> msg,
                              active |-> activePairingCode, pending |-> FALSE,
                              sent |-> IF accepted THEN {response} ELSE {},
                              emitted |-> IF accepted THEN {msg.initiatorDeviceId} ELSE {}]
               /\ generated' = IF accepted THEN [generated EXCEPT !.uses = @ + 1]
                               ELSE generated
        /\ UNCHANGED <<notPairVars, activePairingCode, codeTimers, pendingRequests,
                       pairClock, outcome>>

\* handlePairingResponse on the initiator, and the listener it triggers
HandlePairingResponse ==
    \E msg \in net :
        /\ msg.type = "pairing_response"
        /\ msg.to = PairInitiator
        /\ LET pending == IsPending(msg.requestId)
               result == IF msg.status = "accepted"
                         THEN IF ResponseValid(msg.to, msg)
                              THEN "resolved"
                              ELSE "Invalid signature from peer"
                         ELSE "Pairing rejected by peer"
               success == pending /\ result = "resolved"
           IN  /\ net' = net \ {msg}
               /\ pendingRequests' = DeletePending(pendingRequests, msg.requestId)
               /\ outcome' = IF pending THEN [outcome EXCEPT ![msg.requestId] = result]
                             ELSE outcome
               /\ pairedDevices' =
                      IF success
                      THEN [pairedDevices EXCEPT
                                ![msg.to] = AddPaired(@, msg.responderDeviceId)]
                      ELSE pairedDevices
               /\ handled' = [type |-> "pairing_response", msg |-> msg,
                              active |-> NoCode, pending |-> pending,
                              sent |-> {},
                              emitted |-> IF success THEN {msg.responderDeviceId} ELSE {}]
        /\ UNCHANGED <<notPairVars, activePairingCode, codeTimers, pairClock, generated>>

\* a datagram is lost
LoseDatagram ==
    \E msg \in net :
        /\ net' = net \ {msg}
        /\ UNCHANGED <<notPairVars, activePairingCode, codeTimers, pendingRequests,
                       pairedDevices, pairClock, generated, outcome, handled>>

\* the third device sends the initiator a response for a pending request
ForeignResponse ==
    \E requestId \in RequestIds :
        \E msg \in ForeignResponses(requestId) :
            /\ IsPending(requestId)
            /\ msg \notin net
            /\ Cardinality(net) < MaxDatagrams
            /\ net' = Send(net, msg)
            /\ UNCHANGED <<notPairVars, activePairingCode, codeTimers, pendingRequests,
                           pairedDevices, pairClock, generated, outcome, handled>>

\* the third device calls initiatePairing towards the responder as well, until
\* it has been accepted; what it does with the answer is not followed
ForeignRequest ==
    \E requestId \in RequestIds, code \in Codes :
        LET msg == PairingRequestMessage(requestId, PairOther, PairResponder, code)
        IN  /\ PairOther \notin pairedDevices[PairResponder]
            /\ msg \notin net
            /\ Cardinality(net) < MaxDatagrams
            /\ net' = Send(net, msg)
            /\ UNCHANGED <<notPairVars, activePairingCode, codeTimers, pendingRequests,
                           pairedDevices, pairClock, generated, outcome, handled>>

\* time passes; a timer that is due fires before it does
PairTick ==
    /\ pairClock < MaxPairTime
    /\ \A timer \in codeTimers : pairClock < timer.due
    /\ \A p \in pendingRequests : pairClock < p.due
    /\ pairClock' = pairClock + PairingTimeoutMs
    /\ UNCHANGED <<notPairVars, activePairingCode, codeTimers, pendingRequests,
                   pairedDevices, net, generated, outcome, handled>>

NextPairing ==
    \/ GeneratePairingCode
    \/ ExpireCode
    \/ InitiatePairing
    \/ PairingTimeout
    \/ HandlePairingRequest
    \/ HandlePairingResponse
    \/ LoseDatagram
    \/ ForeignResponse
    \/ PairTick

SpecPairing == InitPairing /\ [][NextPairing]_vars

C17_BadSignatureFails ==
    [][(/\ handled' # handled
        /\ handled'.type = "pairing_response"
        /\ handled'.pending
        /\ handled'.msg.status = "accepted"
        /\ handled'.msg.signature #
               [key |-> handled'.msg.responderPublicKey,
                data |-> <<handled'.msg.requestId, IdentityKey(PairInitiator)>>])
       => (/\ outcome'[handled'.msg.requestId] = "Invalid signature from peer"
           /\ handled'.emitted = {}
           /\ pairedDevices' = pairedDevices)]_vars

C17_Witness ==
    /\ handled.type = "pairing_response"
    /\ handled.pending
    /\ handled.msg.status = "accepted"
    /\ handled.msg.signature.key = handled.msg.responderPublicKey
    /\ handled.msg.signature.data[1] # handled.msg.requestId
    /\ outcome[handled.msg.requestId] = "Invalid signature from peer"
    /\ handled.msg.responderDeviceId \notin pairedDevices[PairInitiator]

PairingFailures == {"Pairing timed out", "Invalid signature from peer",
                    "Pairing rejected by peer"}

\* C18: when every pairing run the initiator started has ended in a timeout, a
\* rejection or a signature failure, the responder holds no TrustRecord for
\* the initiator.
C18_FailedRunLeavesNoTrust ==
    (/\ \E r \in RequestIds : outcome[r] \in PairingFailures
     /\ \A r \in RequestIds : outcome[r] \in PairingFailures \cup {"none"})
    => PairInitiator \notin pairedDevices[PairResponder]

\* the devices the initiator's requests were addressed to
RequestTargets == {PairResponder}

\* C19: the initiator records as paired only a device one of its requests was
\* addressed to: a response signed by another device with that device's own
\* key is not accepted and creates no TrustRecord.
C19_OnlyAddressedDevicePairs ==
    pairedDevices[PairInitiator] \subseteq RequestTargets

\* C20: the code of the latest generatePairingCode call is accepted, and no
\* other code is, until CodeLifetime has passed since that call; after that,
\* and before any call, no code is accepted.
C20_CodeLifetime ==
    /\ generated = NoGeneration =>
           \A code \in Codes : ~CodeAccepted(activePairingCode, code)
    /\ (generated # NoGeneration /\ pairClock < generated.at + CodeLifetime) =>
           \A code \in Codes :
               CodeAccepted(activePairingCode, code) <=> code = generated.code
    /\ (generated # NoGeneration /\ pairClock > generated.at + CodeLifetime) =>
           \A code \in Codes : ~CodeAccepted(activePairingCode, code)

\* timers that are due fire, and time passes
FairSpecPairing ==
    /\ SpecPairing
    /\ WF_vars(PairingTimeout)
    /\ WF_vars(ExpireCode)
    /\ WF_vars(PairTick)

\* one code shown on the responder and typed on two other devices
NextCodeUse ==
    \/ GeneratePairingCode
    \/ ExpireCode
    \/ InitiatePairing
    \/ PairingTimeout
    \/ ForeignRequest
    \/ HandlePairingRequest
    \/ LoseDatagram
    \/ PairTick

SpecCodeUse == InitPairing /\ [][NextCodeUse]_vars

\* C21: a pairing code is accepted at most once: after one PairingRequest
\* carrying the code of a generatePairingCode call has been accepted, no second
\* one is.
C21_CodeSingleUse == generated.uses <= 1

Settled == PairingFailures \cup {"resolved"}

\* what handlePairingResponse makes of a response
ExpectedOutcome(msg) ==
    IF msg.status # "accepted" THEN "Pairing rejected by peer"
    ELSE IF msg.signature = [key |-> msg.responderPublicKey,
                             data |-> <<msg.requestId, IdentityKey(PairInitiator)>>]
         THEN "resolved"
         ELSE "Invalid signature from peer"

\* C22: every initiatePairing call settles exactly once. It settles either by
\* the response handled in that step (resolved, rejected or invalid signature,
\* as the response says) or by its timeout, PairingTimeoutMs after the call and
\* not before; a settled call has no pending entry left and its outcome never
\* changes again, whatever response arrives later; and a pending call settles
\* eventually, no later than its timeout.
C22_SettlesExactlyOnce ==
    /\ [][\A r \in RequestIds :
            /\ outcome[r] \in Settled => outcome'[r] = outcome[r]
            /\ outcome'[r] \in Settled => ~IsPending(r)'
            /\ (outcome[r] = "pending" /\ outcome'[r] # "pending") =>
                   \/ /\ outcome'[r] = "Pairing timed out"
                      /\ handled' = handled
                      /\ \E p \in pendingRequests :
                             p.requestId = r /\ p.due = pairClock
                   \/ /\ handled'.type = "pairing_response"
                      /\ handled'.msg.requestId = r
                      /\ handled'.msg \in net
                      /\ outcome'[r] = ExpectedOutcome(handled'.msg)]_vars
    /\ [](\A p \in pendingRequests :
              outcome[p.requestId] = "pending" /\ pairClock <= p.due)
    /\ \A r \in RequestIds : (outcome[r] = "pending") ~> (outcome[r] \in Settled)

C22_Witness ==
    /\ handled.type = "pairing_response"
    /\ ~handled.pending
    /\ outcome[handled.msg.requestId] \in Settled
    /\ ExpectedOutcome(handled.msg) # outcome[handled.msg.requestId]
    /\ ~IsPending(handled.msg.requestId)

(***************************************************************************)
(* initiateSession, followed across its await of createSessionOffer        *)
(***************************************************************************)
\* two paired, connected devices without a session
InitOffer ==
    /\ trust = [d \in Devices |-> [e \in Devices |->
                   IF d = e THEN NoKey ELSE IdentityKey(e)]]
    /\ pendingSessionOffers = [d \in Devices |-> [p \in Devices |-> NoOffer]]
    /\ sessionKeys = [d \in Devices |-> [p \in Devices |-> NoSession]]
    /\ ephCount = [d \in Devices |-> [p \in Devices |-> 0]]
    /\ sessionRace = [d \in Devices |-> [p \in Devices |-> "none"]]
    /\ chan = [s \in Devices |-> [r \in Devices |-> <<>>]]
    /\ vault = [d \in Devices |-> [path \in Paths |-> NoFile]]
    /\ journal = [d \in Devices |-> EmptyJournal]
    /\ incomingChunks = [d \in Devices |-> [p \in Devices |-> [path \in Paths |-> NoTransfer]]]
    /\ remoteUpdateInProgress = [d \in Devices |-> {}]
    /\ outgoing = [d \in Devices |-> <<>>]
    /\ now = 1
    /\ edits = 0
    /\ raced = FALSE
    /\ RcIdle
    /\ CmIdle
    /\ TxIdle
    /\ PairIdle
    /\ ConnIdle
    /\ AsmIdle
    /\ DsIdle
    /\ ActIdle
    /\ FrIdle
    /\ SockIdle
    /\ TmIdle

\* initiateSession up to its await: the check of pendingSessionOffers and the
\* call of createSessionOffer
BeginInitiateSession(d) ==
    LET p == PeerOf(d)
        eph == NewEphemeral(d, p)
    IN  /\ ephCount[d][p] < MaxOffers
        /\ Len(creating[d]) < MaxOverlap
        /\ WillOffer(d, p)
        /\ ephCount' = [ephCount EXCEPT ![d][p] = @ + 1]
        /\ creating' = [creating EXCEPT ![d] = Append(@, eph)]
        /\ UNCHANGED <<notProtoConnVars, connections, trust, pendingSessionOffers,
                       sessionKeys, sessionRace, chan, vault, journal, incomingChunks,
                       remoteUpdateInProgress, outgoing, now, edits, raced>>

\* initiateSession after its await: the offer is recorded as pending and sent
EndInitiateSession(d) ==
    LET p == PeerOf(d)
        eph == Head(creating[d])
    IN  /\ creating[d] # <<>>
        /\ creating' = [creating EXCEPT ![d] = Tail(@)]
        /\ pendingSessionOffers' = [pendingSessionOffers EXCEPT ![d][p] = eph]
        /\ chan' = [chan EXCEPT ![d][p] = Append(@, SessionOffer(d, eph))]
        /\ raced' = (raced \/ RaceState')
        /\ UNCHANGED <<notProtoConnVars, connections, trust, sessionKeys, ephCount,
                       sessionRace, vault, journal, incomingChunks,
                       remoteUpdateInProgress, outgoing, now, edits>>

OfferStep ==
    \E d \in Devices :
        \/ BeginInitiateSession(d)
        \/ EndInitiateSession(d)

AnswerStep ==
    \E d \in Devices :
        \/ HandleSessionOffer(d)
        \/ HandleSessionAnswer(d)
        \/ handleSyncRequest(d)
        \/ handleSyncResponse(d)

NextOffer == OfferStep \/ AnswerStep

SpecOffer == InitOffer /\ [][NextOffer]_vars

\* d sends a SESSION_OFFER to its peer in this step
SendsOffer(d) ==
    LET before == chan[d][PeerOf(d)]
        after == chan'[d][PeerOf(d)]
    IN  /\ Len(after) > Len(before)
        /\ after[Len(after)].type = "SESSION_OFFER"

\* C23: a device sends a SESSION_OFFER to a peer only while it has no offer
\* pending for that peer, also when initiateSession calls for the peer overlap.
C23_OneOfferOutstanding ==
    [][\A d \in Devices :
           SendsOffer(d) => pendingSessionOffers[d][PeerOf(d)] = NoOffer]_vars

(***************************************************************************)
(* The handshake over a connection that drops and comes back               *)
(***************************************************************************)
\* the 'connected' event: initiateSession while the connection is up
ConnectedInitiate(d) ==
    /\ connections.up
    /\ InitiateSession(d)

\* initiateSession while the peer is not connected: the offer is recorded as
\* pending, transport.send finds no socket and only warns
OfflineInitiate(d) ==
    LET p == PeerOf(d)
        eph == NewEphemeral(d, p)
    IN  /\ ~connections.up
        /\ ephCount[d][p] < MaxOffers
        /\ WillOffer(d, p)
        /\ pendingSessionOffers' = [pendingSessionOffers EXCEPT ![d][p] = eph]
        /\ ephCount' = [ephCount EXCEPT ![d][p] = @ + 1]
        /\ UNCHANGED <<notProtoConnVars, connVars, trust, sessionKeys, sessionRace, chan,
                       vault, journal, incomingChunks, remoteUpdateInProgress,
                       outgoing, now, edits, raced>>

\* the socket closes: what was on the wire is lost, 'disconnected' is emitted
Disconnect ==
    /\ connections.up
    /\ connections.drops < MaxDrops
    /\ connections' = [up |-> FALSE, drops |-> connections.drops + 1]
    /\ chan' = [s \in Devices |-> [r \in Devices |-> <<>>]]
    /\ UNCHANGED <<notProtoConnVars, creating, trust, pendingSessionOffers, sessionKeys,
                   ephCount, sessionRace, vault, journal, incomingChunks,
                   remoteUpdateInProgress, outgoing, now, edits, raced>>

\* connectToPeer succeeds again
Connect ==
    /\ ~connections.up
    /\ connections' = [connections EXCEPT !.up = TRUE]
    /\ UNCHANGED <<notConnVars, creating>>

SessionStep ==
    \E d \in Devices :
        \/ ConnectedInitiate(d)
        \/ OfflineInitiate(d)
        \/ HandleSessionOffer(d)
        \/ HandleSessionAnswer(d)
        \/ handleSyncRequest(d)
        \/ handleSyncResponse(d)

NextReconnect == SessionStep \/ Disconnect \/ Connect

SpecReconnect == InitOffer /\ [][NextReconnect]_vars

\* the connection comes back, 'connected' is followed by initiateSession, and
\* messages that arrived are handled
FairSpecReconnect ==
    /\ SpecReconnect
    /\ WF_vars(Connect)
    /\ \A d \in Devices :
           /\ WF_vars(ConnectedInitiate(d))
           /\ WF_vars(HandleSessionOffer(d))
           /\ WF_vars(HandleSessionAnswer(d))
           /\ WF_vars(handleSyncRequest(d))
           /\ WF_vars(handleSyncResponse(d))

\* C24: a pending offer does not stay pending forever, and once the
\* connection is back for good a session is eventually established.
C24_UnansweredOfferAborted ==
    /\ \A d \in Devices :
           (pendingSessionOffers[d][PeerOf(d)] # NoOffer)
               ~> (pendingSessionOffers[d][PeerOf(d)] = NoOffer)
    /\ (connections.up /\ connections.drops = MaxDrops) ~> SessionUp

(***************************************************************************)
(* Sync messages from a peer without a session.      TcpTransport emits     *)
(* 'message' for every frame a connected socket delivers, whatever session  *)
(* state the receiving SyncService holds, so the first frame is an input.   *)
(***************************************************************************)
StrayReceiver == "dB"
StraySender == PeerOf(StrayReceiver)
StrayFrames ==
    {[type |-> "SYNC_REQUEST"]}
        \cup {[type |-> "FILE_REQUEST", filePath |-> path] : path \in EditPaths}
        \cup {TransferMessages(path, <<"x">>, TxKey)[1] : path \in EditPaths}

InitStray ==
    /\ trust = [d \in Devices |-> [e \in Devices |->
                   IF d = e THEN NoKey ELSE IdentityKey(e)]]
    /\ pendingSessionOffers = [d \in Devices |-> [p \in Devices |-> NoOffer]]
    /\ sessionKeys = [d \in Devices |-> [p \in Devices |-> NoSession]]
    /\ ephCount = [d \in Devices |-> [p \in Devices |-> 0]]
    /\ sessionRace = [d \in Devices |-> [p \in Devices |-> "none"]]
    /\ \E frame \in StrayFrames :
           chan = [s \in Devices |-> [r \in Devices |->
                      IF s = StraySender /\ r = StrayReceiver THEN <<frame>> ELSE <<>>]]
    /\ vault = [d \in Devices |-> [path \in Paths |->
                   IF d = StrayReceiver /\ path \in EditPaths
                   THEN File(<<"x">>, 0) ELSE NoFile]]
    /\ journal = [d \in Devices |-> ScanVault(vault[d], EmptyJournal, 1)]
    /\ incomingChunks = [d \in Devices |-> [p \in Devices |-> [path \in Paths |-> NoTransfer]]]
    /\ remoteUpdateInProgress = [d \in Devices |-> {}]
    /\ outgoing = [d \in Devices |-> <<>>]
    /\ now = 1
    /\ edits = 0
    /\ raced = FALSE
    /\ RcIdle
    /\ CmIdle
    /\ TxIdle
    /\ PairIdle
    /\ ConnIdle
    /\ AsmIdle
    /\ DsIdle
    /\ ActIdle
    /\ FrIdle
    /\ SockIdle
    /\ TmIdle

\* the handlers of both devices; the clock plays no part here
NextStray == ProtocolStep

SpecStray == InitStray /\ [][NextStray]_vars

\* d handles a message of one of the given types from its peer in this step
Handles(d, types) ==
    LET inbox == chan[PeerOf(d)][d]
    IN  /\ inbox # <<>>
        /\ Head(inbox).type \in types
        /\ chan'[PeerOf(d)][d] = Tail(inbox)

\* C25: when a device handles a FILE_REQUEST or a FILE_CHUNK from a peer it
\* holds no session key for, a handshake with that peer is under way
\* afterwards: an offer of the device is pending.
C25_NoSessionStartsHandshake ==
    [][\A d \in Devices :
           (Handles(d, {"FILE_REQUEST", "FILE_CHUNK"})
               /\ sessionKeys[d][PeerOf(d)] = NoSession)
           => pendingSessionOffers'[d][PeerOf(d)] # NoOffer]_vars

\* d sends a message of the given type to its peer in this step
SendsMessage(d, type) ==
    LET before == chan[d][PeerOf(d)]
        after == chan'[d][PeerOf(d)]
    IN  /\ Len(after) > Len(before)
        /\ after[Len(after)].type = type

\* C26: a device sends a SYNC_REQUEST to its peer, and returns a
\* SYNC_RESPONSE to it, only while it holds a session key for that peer.
C26_SnapshotsNeedSession ==
    [][\A d \in Devices :
           /\ SendsMessage(d, "SYNC_REQUEST") => sessionKeys'[d][PeerOf(d)] # NoSession
           /\ SendsMessage(d, "SYNC_RESPONSE") => sessionKeys[d][PeerOf(d)] # NoSession]_vars

(***************************************************************************)
(* One inbound transfer with its TransferStatus.  The Receiver holds a     *)
(* session with the Sender; the FILE_CHUNKs of one file arrive in a drawn  *)
(* order, and one of them may have been encrypted under another key, so    *)
(* that decrypt_chunk throws.  writeBinary resolves or rejects.            *)
(***************************************************************************)
OtherSessionKey == compute_shared_secret(<<Sender, Receiver, 2>>, <<Receiver, Sender, 2>>)
FailedNotice == "Failed to save received file"
ReceivedNotice == "Received file"

\* the chunks of prepare_transfer with chunk number bad (if any) under OtherSessionKey
ChunksWithBad(content, bad) ==
    LET msgs == TransferMessages(TxPath, content, TxKey)
    IN  [i \in 1..Len(msgs) |->
            IF i = bad THEN [msgs[i] EXCEPT !.data = Encrypt(OtherSessionKey, @.plain)]
            ELSE msgs[i]]

InitReassemble ==
    /\ trust = [d \in Devices |-> [e \in Devices |-> IF d = e THEN NoKey ELSE IdentityKey(e)]]
    /\ pendingSessionOffers = [d \in Devices |-> [p \in Devices |-> NoOffer]]
    /\ sessionKeys = [d \in Devices |-> [p \in Devices |-> IF d = p THEN NoSession ELSE TxKey]]
    /\ ephCount = [d \in Devices |-> [p \in Devices |-> IF d = p THEN 0 ELSE 1]]
    /\ sessionRace = [d \in Devices |-> [p \in Devices |-> "none"]]
    /\ \E content \in TxContents :
         \E bad \in 0..Len(TransferMessages(TxPath, content, TxKey)) :
           \E order \in ArrivalOrders(Len(TransferMessages(TxPath, content, TxKey))) :
             chan = [s \in Devices |-> [r \in Devices |->
                        IF s = Sender /\ r = Receiver
                        THEN Permute(ChunksWithBad(content, bad), order)
                        ELSE <<>>]]
    /\ \E old \in {NoFile, File(<<"y">>, 0)} :
           vault = [d \in Devices |-> [path \in Paths |->
                       IF d = Receiver /\ path = TxPath THEN old ELSE NoFile]]
    /\ journal = [d \in Devices |-> ScanVault(vault[d], EmptyJournal, 1)]
    /\ incomingChunks = [d \in Devices |-> [p \in Devices |-> [path \in Paths |-> NoTransfer]]]
    /\ remoteUpdateInProgress = [d \in Devices |-> {}]
    /\ outgoing = [d \in Devices |-> <<>>]
    /\ now = 1
    /\ edits = 0
    /\ raced = FALSE
    /\ RcIdle
    /\ CmIdle
    /\ TxIdle
    /\ PairIdle
    /\ ConnIdle
    /\ AsmIdle
    /\ DsIdle
    /\ ActIdle
    /\ FrIdle
    /\ SockIdle
    /\ TmIdle

\* the state of a transfer after reassembleAndWrite caught an error: the
\* catch block logs and shows a Notice, and leaves the TransferStatus alone
FailedState(state) == state

\* handleMessage, FILE_CHUNK: the TransferStatus, the buffer and, once
\* chunks.size === total, reassembleAndWrite up to its await of writeBinary
\* or, when decrypt_chunk throws, through its catch block
ReceiveChunkStatus ==
    LET d == Receiver
        p == Sender
        msg == Head(chan[p][d])
        path == msg.filePath
        sessionKey == sessionKeys[d][p]
        found == IF activeTransfers[path].present THEN activeTransfers[path]
                 ELSE [present |-> TRUE, state |-> "transferring", progress |-> <<0, 1>>]
        status == [found EXCEPT !.progress = <<msg.chunkIndex + 1, msg.totalChunks>>]
        transfer == BufferChunk(incomingChunks[d][p][path], msg)
        r == Reassemble(transfer, sessionKey)
        completed == [status EXCEPT !.state = "completed", !.progress = <<1, 1>>]
    IN  /\ HasMessage(d, p, "FILE_CHUNK")
        /\ sessionKey # NoSession
        /\ Deliver(d, p, <<>>)
        /\ IF ~IsComplete(transfer)
           THEN /\ activeTransfers' = [activeTransfers EXCEPT ![path] = status]
                /\ incomingChunks' = [incomingChunks EXCEPT ![d][p][path] = transfer]
                /\ UNCHANGED <<remoteUpdateInProgress, writing, notices>>
           ELSE IF r.ok
           THEN /\ activeTransfers' = [activeTransfers EXCEPT ![path] = completed]
                /\ incomingChunks' = [incomingChunks EXCEPT ![d][p][path] = transfer]
                /\ remoteUpdateInProgress' = [remoteUpdateInProgress EXCEPT ![d] = @ \cup {path}]
                /\ writing' = Append(writing, [peerId |-> p, path |-> path, content |-> r.content])
                /\ UNCHANGED notices
           ELSE /\ activeTransfers' = [activeTransfers EXCEPT ![path] =
                       [completed EXCEPT !.state = FailedState(@)]]
                /\ incomingChunks' = [incomingChunks EXCEPT ![d][p][path] = NoTransfer]
                /\ notices' = Append(notices, [text |-> FailedNotice, path |-> path])
                /\ UNCHANGED <<remoteUpdateInProgress, writing>>
        /\ UNCHANGED <<sessionVars, rcVars, cmVars, pairVars, tmVars, sockVars, frVars, actVars, dsVars, connVars, vault, journal, outgoing,
                       vaultEvents, txContent, txOrder, txSecond, txPhase, txSent, txWrites,
                       txDelivered>>

\* writeBinary resolves: the file is written and recorded in the journal,
\* the timer that ends the suppression is set, the Notice is shown, and the
\* handler drops the buffered transfer
WriteResolves ==
    LET d == Receiver
        w == Head(writing)
    IN  /\ writing # <<>>
        /\ writing' = Tail(writing)
        /\ vault' = [vault EXCEPT ![d][w.path] = File(w.content, now)]
        /\ journal' = [journal EXCEPT ![d] = RecordWrite(@, w.path, w.content, now)]
        /\ vaultEvents' = Append(vaultEvents, w.path)
        /\ suppressTimers' = [suppressTimers EXCEPT ![w.path] = @ + 1]
        /\ notices' = Append(notices, [text |-> ReceivedNotice, path |-> w.path])
        /\ incomingChunks' = [incomingChunks EXCEPT ![d][w.peerId][w.path] = NoTransfer]
        /\ UNCHANGED <<sessionVars, rcVars, cmVars, pairVars, sockVars, frVars, actVars, dsVars, connVars, chan, remoteUpdateInProgress,
                       outgoing, activeTransfers, txContent, txOrder, txSecond, txPhase, txSent,
                       txWrites, txDelivered>>

\* writeBinary rejects: the catch block of reassembleAndWrite runs, nothing
\* is written or recorded, and the handler drops the buffered transfer
WriteRejects ==
    LET d == Receiver
        w == Head(writing)
    IN  /\ writing # <<>>
        /\ writing' = Tail(writing)
        /\ activeTransfers' = [activeTransfers EXCEPT ![w.path].state = FailedState(@)]
        /\ notices' = Append(notices, [text |-> FailedNotice, path |-> w.path])
        /\ incomingChunks' = [incomingChunks EXCEPT ![d][w.peerId][w.path] = NoTransfer]
        /\ UNCHANGED <<sessionVars, rcVars, cmVars, pairVars, tmVars, sockVars, frVars, actVars, dsVars, connVars, chan, vault, journal,
                       remoteUpdateInProgress, outgoing, vaultEvents, txContent, txOrder,
                       txSecond, txPhase, txSent, txWrites, txDelivered>>

NextReassemble ==
    \/ ReceiveChunkStatus
    \/ WriteResolves
    \/ WriteRejects

SpecReassemble == InitReassemble /\ [][NextReassemble]_vars

\* reassembleAndWrite shows its failure Notice in this step
ReassemblyFails ==
    /\ Len(notices') = Len(notices) + 1
    /\ notices'[Len(notices')].text = FailedNotice

\* C27: when reassembling an inbound transfer fails, in decrypt_chunk or in
\* writeBinary, the transfer's state is failed afterwards, and the vault
\* file at the path and its journal entry are what they were.
C27_FailedReassemblyMarked ==
    [][ReassemblyFails =>
           LET path == notices'[Len(notices')].path
           IN  /\ activeTransfers'[path].state = "failed"
               /\ vault'[Receiver][path] = vault[Receiver][path]
               /\ journal'[Receiver].files[path] = journal[Receiver].files[path]]_vars

(***************************************************************************)
(* P2PDiscoveryService.  Other devices' announcements arrive while the     *)
(* transport is started; time passes in steps of DsStep, and a timeout     *)
(* that is due runs before time passes on.                                 *)
(***************************************************************************)
PeerTTL == 60000
DsStep == 20000
MaxDsTime == 120000

DsOp(op, id, ip, emitted) == [op |-> op, id |-> id, ip |-> ip, emitted |-> emitted]
DsEvent(type, id) == [type |-> type, id |-> id]

\* process_announcement of the P2P node: a well-formed announcement of
\* another peer is recorded with the time it was seen, and reported as new
\* or updated
process_announcement(table, id, currentTime) == [table EXCEPT ![id] = currentTime]

\* prune_peers of the P2P node: entries last seen more than ttlMs ago go
prune_peers(table, currentTime, ttlMs) ==
    [id \in DsPeers |-> IF table[id] # 0 /\ currentTime - table[id] > ttlMs THEN 0 ELSE table[id]]

\* a resetPeerTTL that leaves the timeout of the peer as it is
resetPeerTTL_keep(timers, id) ==
    IF timers[id].armed THEN timers ELSE [timers EXCEPT ![id] = [armed |-> TRUE, due |-> dsClock + PeerTTL]]

\* resetPeerTTL: the pending timeout of the peer is cleared and a new one set
resetPeerTTL(timers, id) == [timers EXCEPT ![id] = [armed |-> TRUE, due |-> dsClock + PeerTTL]]

\* a clearAllTTLTimers that clears nothing
clearAllTTLTimers_none(timers) == timers

clearAllTTLTimers(timers) == [id \in DsPeers |-> NoTimer]

DiscoveredPeer(ip) == [present |-> TRUE, last_seen_timestamp |-> dsClock, addresses |-> {ip}]

\* the event handleDiscoveryMessage and addPeer emit for a peer
PeerEvent(id) ==
    IF ~peers[id].present THEN DsEvent("peer_discovered", id) ELSE DsEvent("peer_updated", id)

InitDiscovery ==
    /\ trust = [d \in Devices |-> [e \in Devices |-> NoKey]]
    /\ pendingSessionOffers = [d \in Devices |-> [p \in Devices |-> NoOffer]]
    /\ sessionKeys = [d \in Devices |-> [p \in Devices |-> NoSession]]
    /\ ephCount = [d \in Devices |-> [p \in Devices |-> 0]]
    /\ sessionRace = [d \in Devices |-> [p \in Devices |-> "none"]]
    /\ chan = [s \in Devices |-> [r \in Devices |-> <<>>]]
    /\ vault = [d \in Devices |-> [path \in Paths |-> NoFile]]
    /\ journal = [d \in Devices |-> EmptyJournal]
    /\ incomingChunks = [d \in Devices |-> [p \in Devices |-> [path \in Paths |-> NoTransfer]]]
    /\ remoteUpdateInProgress = [d \in Devices |-> {}]
    /\ outgoing = [d \in Devices |-> <<>>]
    /\ now = 1
    /\ edits = 0
    /\ raced = FALSE
    /\ RcIdle
    /\ CmIdle
    /\ TxIdle
    /\ PairIdle
    /\ ConnIdle
    /\ AsmIdle
    /\ DsIdle
    /\ ActIdle
    /\ FrIdle
    /\ SockIdle
    /\ TmIdle

\* startDiscovery; start_discovery of the node may throw
\* a startDiscovery that does not look at isDiscovering
AlreadyDiscovering_never(flag) == FALSE

\* the test startDiscovery begins with
AlreadyDiscovering(flag) == flag

\* startDiscovery; start_discovery of the node may throw
startDiscovery ==
    \E ok \in BOOLEAN :
        /\ IF AlreadyDiscovering(isDiscovering)
           THEN /\ dsLast' = DsOp("startDiscovery", "", "", <<>>)
                /\ UNCHANGED <<isDiscovering, broadcastInterval, pruneInterval, udpSockets,
                               intervals>>
           ELSE IF ok
           THEN /\ isDiscovering' = TRUE
                /\ udpSockets' = udpSockets + 1
                /\ broadcastInterval' = TRUE
                /\ pruneInterval' = TRUE
                /\ intervals' = intervals + 2
                /\ dsLast' = DsOp("startDiscovery", "", "", <<DsEvent("discovery_started", "")>>)
           ELSE /\ dsLast' = DsOp("startDiscovery", "", "", <<DsEvent("discovery_error", "")>>)
                /\ UNCHANGED <<isDiscovering, broadcastInterval, pruneInterval, udpSockets,
                               intervals>>
        /\ UNCHANGED <<notDsVars, peers, ttlTimers, nodePeers, dsClock>>

stopDiscovery ==
    /\ IF ~isDiscovering
       THEN /\ dsLast' = DsOp("stopDiscovery", "", "", <<>>)
            /\ UNCHANGED <<isDiscovering, broadcastInterval, pruneInterval, ttlTimers,
                           udpSockets, intervals>>
       ELSE /\ udpSockets' = IF udpSockets > 0 THEN udpSockets - 1 ELSE 0
            /\ intervals' = intervals - (IF broadcastInterval THEN 1 ELSE 0)
                                       - (IF pruneInterval THEN 1 ELSE 0)
            /\ broadcastInterval' = FALSE
            /\ pruneInterval' = FALSE
            /\ isDiscovering' = FALSE
            /\ ttlTimers' = clearAllTTLTimers(ttlTimers)
            /\ dsLast' = DsOp("stopDiscovery", "", "", <<DsEvent("discovery_stopped", "")>>)
    /\ UNCHANGED <<notDsVars, peers, nodePeers, dsClock>>

\* the announcement interval fires
broadcastAnnouncement ==
    /\ broadcastInterval
    /\ dsLast' = DsOp("broadcastAnnouncement", "", "", <<>>)
    /\ UNCHANGED <<notDsVars, udpSockets, intervals, isDiscovering, peers, ttlTimers, nodePeers, broadcastInterval,
                   pruneInterval, dsClock>>

\* the sweep interval fires
prunePeers ==
    /\ pruneInterval
    /\ nodePeers' = prune_peers(nodePeers, dsClock, PeerTTL)
    /\ dsLast' = DsOp("prunePeers", "", "", <<>>)
    /\ UNCHANGED <<notDsVars, udpSockets, intervals, isDiscovering, peers, ttlTimers, broadcastInterval,
                   pruneInterval, dsClock>>

\* a datagram arrives on the started transport: an announcement of peer id
\* from address ip, or one that process_announcement does not accept
handleDiscoveryMessage ==
    \E id \in DsPeers, ip \in DsAddresses, valid \in BOOLEAN :
        /\ isDiscovering
        /\ dsClock + PeerTTL <= MaxDsTime
        /\ IF valid
           THEN /\ nodePeers' = process_announcement(nodePeers, id, dsClock)
                /\ peers' = [peers EXCEPT ![id] = DiscoveredPeer(ip)]
                /\ ttlTimers' = resetPeerTTL(ttlTimers, id)
                /\ dsLast' = DsOp("handleDiscoveryMessage", id, ip, <<PeerEvent(id)>>)
           ELSE /\ dsLast' = DsOp("handleDiscoveryMessage", "", "", <<>>)
                /\ UNCHANGED <<nodePeers, peers, ttlTimers>>
        /\ UNCHANGED <<notDsVars, udpSockets, intervals, isDiscovering, broadcastInterval, pruneInterval, dsClock>>

addPeer ==
    \E id \in DsPeers, ip \in DsAddresses :
        /\ dsClock + PeerTTL <= MaxDsTime
        /\ peers' = [peers EXCEPT ![id] = DiscoveredPeer(ip)]
        /\ ttlTimers' = resetPeerTTL(ttlTimers, id)
        /\ dsLast' = DsOp("addPeer", id, ip, <<PeerEvent(id)>>)
        /\ UNCHANGED <<notDsVars, udpSockets, intervals, isDiscovering, nodePeers, broadcastInterval, pruneInterval,
                       dsClock>>

\* the TTL timeout of a peer fires: removePeer
TTLExpires ==
    \E id \in DsPeers :
        /\ ttlTimers[id].armed
        /\ ttlTimers[id].due <= dsClock
        /\ ttlTimers' = [ttlTimers EXCEPT ![id] = NoTimer]
        /\ IF ~peers[id].present
           THEN /\ dsLast' = DsOp("removePeer", id, "", <<>>)
                /\ UNCHANGED <<peers, nodePeers>>
           ELSE /\ peers' = [peers EXCEPT ![id] = NoPeer]
                /\ nodePeers' = [nodePeers EXCEPT ![id] = 0]
                /\ dsLast' = DsOp("removePeer", id, "", <<DsEvent("peer_lost", id)>>)
        /\ UNCHANGED <<notDsVars, udpSockets, intervals, isDiscovering, broadcastInterval, pruneInterval, dsClock>>

clearPeers ==
    /\ nodePeers' = [id \in DsPeers |-> 0]
    /\ peers' = [id \in DsPeers |-> NoPeer]
    /\ ttlTimers' = clearAllTTLTimers(ttlTimers)
    /\ dsLast' = DsOp("clearPeers", "", "", <<DsEvent("peers_cleared", "")>>)
    /\ UNCHANGED <<notDsVars, udpSockets, intervals, isDiscovering, broadcastInterval, pruneInterval, dsClock>>

\* time passes, once every timeout that is due has run
DsTick ==
    /\ dsClock < MaxDsTime
    /\ \A id \in DsPeers : ttlTimers[id].armed => ttlTimers[id].due > dsClock
    /\ dsClock' = dsClock + DsStep
    /\ dsLast' = DsOp("tick", "", "", <<>>)
    /\ UNCHANGED <<notDsVars, udpSockets, intervals, isDiscovering, peers, ttlTimers, nodePeers, broadcastInterval,
                   pruneInterval>>

NextDiscovery ==
    \/ startDiscovery
    \/ stopDiscovery
    \/ broadcastAnnouncement
    \/ prunePeers
    \/ handleDiscoveryMessage
    \/ addPeer
    \/ TTLExpires
    \/ clearPeers
    \/ DsTick

SpecDiscovery == InitDiscovery /\ [][NextDiscovery]_vars

\* this step handles a well-formed announcement of peer id
AnnouncementHandled(id) ==
    /\ dsLast'.op = "handleDiscoveryMessage"
    /\ dsLast'.id = id

\* C28: a valid announcement of a peer that is not in the table inserts it
\* and raises exactly one peer_discovered; one of a peer in the table
\* refreshes its last-seen time and addresses, restarts its TTL and raises
\* exactly one peer_updated; peer_discovered is never raised for a peer that
\* is in the table.
C28_AnnouncementUpserts ==
    [][\A id \in DsPeers :
           /\ AnnouncementHandled(id) =>
                  /\ peers'[id] = [present |-> TRUE, last_seen_timestamp |-> dsClock,
                                   addresses |-> {dsLast'.ip}]
                  /\ ttlTimers'[id] = [armed |-> TRUE, due |-> dsClock + PeerTTL]
                  /\ dsLast'.emitted =
                         IF peers[id].present THEN <<DsEvent("peer_updated", id)>>
                         ELSE <<DsEvent("peer_discovered", id)>>
                  /\ \A other \in DsPeers \ {id} : peers'[other] = peers[other]
           /\ (\E i \in 1..Len(dsLast'.emitted) :
                   dsLast'.emitted[i] = DsEvent("peer_discovered", id))
                  => ~peers[id].present]_vars

C28_Witness ==
    /\ dsLast = DsOp("handleDiscoveryMessage", "a1", "ip2", <<DsEvent("peer_updated", "a1")>>)
    /\ peers["a1"] = [present |-> TRUE, last_seen_timestamp |-> 2 * DsStep, addresses |-> {"ip2"}]
    /\ ttlTimers["a1"].due = 2 * DsStep + PeerTTL
    /\ nodePeers["a1"] = 2 * DsStep

\* timeouts that are due run, and time passes
FairSpecDiscovery ==
    /\ SpecDiscovery
    /\ WF_vars(TTLExpires)
    /\ WF_vars(DsTick)

\* this step removes peer id from the table by removePeer
PeerRemoved(id) ==
    /\ dsLast'.op = "removePeer"
    /\ dsLast'.id = id
    /\ peers[id].present

\* C29: a peer does not stay in the table for ever while discovery runs
\* once it is not announced again (no announcement is handled after
\* MaxDsTime - PeerTTL, so every peer falls silent), whether or not discovery
\* was stopped and started in between; removePeer takes a peer out only once
\* its TTL has passed since it was last seen, and raises exactly one
\* peer_lost for it.
C29_SilentPeerExpires ==
    /\ \A id \in DsPeers :
           (peers[id].present /\ isDiscovering) ~> (~peers[id].present \/ ~isDiscovering)
    /\ [][\A id \in DsPeers :
              /\ PeerRemoved(id) =>
                     /\ ~peers'[id].present
                     /\ dsClock - peers[id].last_seen_timestamp >= PeerTTL
                     /\ dsLast'.emitted = <<DsEvent("peer_lost", id)>>
              /\ (\E i \in 1..Len(dsLast'.emitted) :
                      dsLast'.emitted[i] = DsEvent("peer_lost", id))
                     => PeerRemoved(id)]_vars

\* this step is a stopDiscovery call that finds discovery running
DiscoveryStopped ==
    /\ dsLast'.op = "stopDiscovery"
    /\ isDiscovering

StartedAgain ==
    /\ dsLast'.op = "startDiscovery"
    /\ isDiscovering

\* C31: startDiscovery while discovery runs throws nothing and emits
\* nothing, creates no further interval and no further socket, and leaves
\* the discovery state, the peer table and its timeouts as they are.
C31_SecondStartIsNoOp ==
    [][StartedAgain =>
           /\ dsLast'.emitted = <<>>
           /\ udpSockets' = udpSockets /\ udpSockets = 1
           /\ intervals' = intervals /\ intervals = 2
           /\ UNCHANGED <<isDiscovering, peers, ttlTimers, nodePeers, broadcastInterval,
                          pruneInterval, dsClock>>]_vars

C31_Witness ==
    /\ dsLast = DsOp("startDiscovery", "", "", <<>>)
    /\ isDiscovering
    /\ peers["a1"].present
    /\ ttlTimers["a1"].armed
    /\ udpSockets = 1
    /\ intervals = 2

(***************************************************************************)
(* The inactivity watch of SyncService.  The check runs on its one-minute  *)
(* interval; vault events and messages of connected peers arrive between   *)
(* the checks, and peers connect again after a teardown.                   *)
(***************************************************************************)
InactivityTimeoutMs == 300000
ActStep == 60000
MaxActTime == 600000

\* a SyncService with no handshake, transfer or file yet
QuietProtocol ==
    /\ trust = [d \in Devices |-> [e \in Devices |-> NoKey]]
    /\ pendingSessionOffers = [d \in Devices |-> [p \in Devices |-> NoOffer]]
    /\ sessionKeys = [d \in Devices |-> [p \in Devices |-> NoSession]]
    /\ ephCount = [d \in Devices |-> [p \in Devices |-> 0]]
    /\ sessionRace = [d \in Devices |-> [p \in Devices |-> "none"]]
    /\ chan = [s \in Devices |-> [r \in Devices |-> <<>>]]
    /\ vault = [d \in Devices |-> [path \in Paths |-> NoFile]]
    /\ journal = [d \in Devices |-> EmptyJournal]
    /\ incomingChunks = [d \in Devices |-> [p \in Devices |-> [path \in Paths |-> NoTransfer]]]
    /\ remoteUpdateInProgress = [d \in Devices |-> {}]
    /\ outgoing = [d \in Devices |-> <<>>]
    /\ now = 1
    /\ edits = 0
    /\ raced = FALSE

\* discovery is running and the watch has just been started
InitInactivity ==
    /\ QuietProtocol
    /\ RcIdle
    /\ CmIdle
    /\ TxIdle
    /\ PairIdle
    /\ ConnIdle
    /\ AsmIdle
    /\ isDiscovering = TRUE
    /\ peers = [id \in DsPeers |-> NoPeer]
    /\ ttlTimers = [id \in DsPeers |-> NoTimer]
    /\ nodePeers = [id \in DsPeers |-> 0]
    /\ broadcastInterval = TRUE
    /\ pruneInterval = TRUE
    /\ dsClock = 0
    /\ dsLast = NoOp
    /\ udpSockets = 1
    /\ intervals = 2
    /\ ActIdle
    /\ FrIdle
    /\ SockIdle
    /\ TmIdle

\* connectToPeer or an inbound connection: the peer gets a connection entry
PeerConnects ==
    \E id \in DsPeers :
        /\ id \notin tcpPeers
        /\ tcpPeers' = tcpPeers \cup {id}
        /\ actLast' = "connect"
        /\ UNCHANGED <<notActVars, lastActivityTime, lastMessageTime, actClock>>

\* updateActivity: lastActivityTime = Date.now()
updateActivity(last) == actClock

\* a vault event: handleFileCreate, handleFileModify, handleFileDelete and
\* handleFileRename begin with updateActivity
VaultEvent ==
    /\ lastActivityTime' = updateActivity(lastActivityTime)
    /\ actLast' = "vault"
    /\ UNCHANGED <<notActVars, lastMessageTime, tcpPeers, actClock>>

\* the transport emits 'message' for a connected peer: handleMessage runs,
\* and none of its branches calls updateActivity
MessageReceived ==
    \E id \in tcpPeers :
        /\ lastMessageTime' = actClock
        /\ actLast' = "message"
        /\ UNCHANGED <<notActVars, lastActivityTime, tcpPeers, actClock>>

\* checkInactivity, on its interval: disconnectAll once the timeout has passed
checkInactivity ==
    /\ tcpPeers' = IF actClock - lastActivityTime > InactivityTimeoutMs THEN {} ELSE tcpPeers
    /\ actLast' = "check"
    /\ UNCHANGED <<notActVars, lastActivityTime, lastMessageTime, actClock>>

ActTick ==
    /\ actClock < MaxActTime
    /\ actClock' = actClock + ActStep
    /\ actLast' = "tick"
    /\ UNCHANGED <<notActVars, lastActivityTime, lastMessageTime, tcpPeers>>

NextInactivity ==
    \/ PeerConnects
    \/ VaultEvent
    \/ MessageReceived
    \/ checkInactivity
    \/ ActTick

SpecInactivity == InitInactivity /\ [][NextInactivity]_vars

\* this step closes peer connections
TornDown == tcpPeers # {} /\ tcpPeers' # tcpPeers /\ actLast' = "check"

\* C32: the inactivity check closes connections only when more than the
\* timeout has passed since the last vault change and since the last
\* message of a peer; when it runs after that long without a vault change
\* it closes every connection; discovery keeps running.
C32_TeardownOnlyAfterInactivity ==
    [][/\ TornDown =>
              /\ actClock - lastActivityTime > InactivityTimeoutMs
              /\ actClock - lastMessageTime > InactivityTimeoutMs
              /\ tcpPeers' = {}
              /\ isDiscovering' /\ broadcastInterval' /\ pruneInterval'
       /\ (actLast' = "check" /\ actClock - lastActivityTime > InactivityTimeoutMs
             /\ actClock - lastMessageTime > InactivityTimeoutMs)
              => tcpPeers' = {}]_vars

(***************************************************************************)
(* Framing of TcpTransport: one socket, seen from its receiving end.  The  *)
(* sender writes frames with sendToSocket, a peer may also write a frame   *)
(* whose payload is not JSON, and TCP hands the bytes to the 'data'        *)
(* handler in pieces of any size.                                          *)
(***************************************************************************)
MaxFrames == 3

\* the messages sent, each with the UTF-8 bytes of its JSON text
FrMessages == {"ping", "deleteB", "deleteA"}

\* JSON.stringify followed by Buffer.from(json, 'utf-8')
JSON_stringify(m) ==
    CASE m = "ping"    -> <<49>>
      [] m = "deleteB" -> <<91, 93>>
      [] m = "deleteA" -> <<123, 0, 125>>

\* payloads that are not JSON texts
BadPayloads == {<<123>>, <<91, 0>>}

SyntaxError == "SyntaxError"

\* messageBuffer.toString('utf-8') followed by JSON.parse, which throws on
\* every text that is not a JSON text
JSON_parse(bytes) ==
    IF \E m \in FrMessages : JSON_stringify(m) = bytes
    THEN CHOOSE m \in FrMessages : JSON_stringify(m) = bytes
    ELSE SyntaxError

\* lengthBuffer.writeUInt32BE(buffer.length, 0)
writeUInt32BE(n) ==
    <<(n \div 16777216) % 256, (n \div 65536) % 256, (n \div 256) % 256, n % 256>>

\* buffer.readUInt32BE(0)
readUInt32BE(b) == ((b[1] * 256 + b[2]) * 256 + b[3]) * 256 + b[4]

\* the bytes of one frame: the length prefix, then the payload
Frame(payload) == writeUInt32BE(Len(payload)) \o payload

\* the test that lets a frame be decoded as soon as one byte of it is there
FullyBuffered_early(buf, expected) == Len(buf) >= 1

\* buffer.length >= expectedLength
FullyBuffered(buf, expected) == Len(buf) >= expected

\* Buffer.slice(start, end): the bytes from offset start up to, not
\* including, offset end; an end beyond the buffer is the buffer's end
slice(buf, start, end) ==
    SubSeq(buf, start + 1, IF end > Len(buf) THEN Len(buf) ELSE end)

\* the loop without its try and catch: a payload that does not parse ends
\* the handler where it stands
RECURSIVE Drain_nocatch(_, _, _)
Drain_nocatch(buf, expected, log) ==
    IF expected = NoLength
    THEN IF Len(buf) >= 4
         THEN Drain_nocatch(slice(buf, 4, Len(buf)), readUInt32BE(buf), log)
         ELSE [buffer |-> buf, expectedLength |-> expected, log |-> log]
    ELSE IF Len(buf) >= expected
         THEN IF JSON_parse(slice(buf, 0, expected)) = SyntaxError
              THEN [buffer |-> slice(buf, expected, Len(buf)), expectedLength |-> NoLength,
                    log |-> Append(log, SyntaxError)]
              ELSE Drain_nocatch(slice(buf, expected, Len(buf)), NoLength,
                                 Append(log, JSON_parse(slice(buf, 0, expected))))
         ELSE [buffer |-> buf, expectedLength |-> expected, log |-> log]

\* the while (true) loop of the 'data' handler, after the chunk was
\* appended to the buffer; log is what the frames decoded so far gave
RECURSIVE Drain(_, _, _)
Drain(buf, expected, log) ==
    IF expected = NoLength
    THEN IF Len(buf) >= 4
         THEN Drain(slice(buf, 4, Len(buf)), readUInt32BE(buf), log)
         ELSE [buffer |-> buf, expectedLength |-> expected, log |-> log]
    ELSE IF FullyBuffered(buf, expected)
         THEN Drain(slice(buf, expected, Len(buf)), NoLength,
                    Append(log, JSON_parse(slice(buf, 0, expected))))
         ELSE [buffer |-> buf, expectedLength |-> expected, log |-> log]

InitFraming ==
    /\ QuietProtocol
    /\ RcIdle
    /\ CmIdle
    /\ TxIdle
    /\ PairIdle
    /\ ConnIdle
    /\ AsmIdle
    /\ DsIdle
    /\ ActIdle
    /\ FrIdle
    /\ SockIdle
    /\ TmIdle

\* sendToSocket: the length prefix and the payload are written to the socket
sendToSocket ==
    \E m \in FrMessages :
        /\ Len(framesWritten) < MaxFrames
        /\ wire' = wire \o Frame(JSON_stringify(m))
        /\ framesWritten' = Append(framesWritten, JSON_stringify(m))
        /\ UNCHANGED <<notFrVars, buffer, expectedLength, frameLog, bytesRead>>

\* the peer writes a frame whose payload is not JSON
WriteBadFrame ==
    \E payload \in BadPayloads :
        /\ Len(framesWritten) < MaxFrames
        /\ wire' = wire \o Frame(payload)
        /\ framesWritten' = Append(framesWritten, payload)
        /\ UNCHANGED <<notFrVars, buffer, expectedLength, frameLog, bytesRead>>

\* socket.on('data'): the next k bytes of the stream arrive in one event
DataEvent ==
    \E k \in 1..Len(wire) :
        LET r == Drain(buffer \o SubSeq(wire, 1, k), expectedLength, frameLog) IN
        /\ wire' = SubSeq(wire, k + 1, Len(wire))
        /\ buffer' = r.buffer
        /\ expectedLength' = r.expectedLength
        /\ frameLog' = r.log
        /\ bytesRead' = bytesRead + k
        /\ UNCHANGED <<notFrVars, framesWritten>>

NextFraming ==
    \/ sendToSocket
    \/ WriteBadFrame
    \/ DataEvent

SpecFraming == InitFraming /\ [][NextFraming]_vars

\* what the receiver is to make of a written payload: the message it was
\* made from, or a failure to parse
Outcome(payload) ==
    IF \E m \in FrMessages : JSON_stringify(m) = payload
    THEN CHOOSE m \in FrMessages : JSON_stringify(m) = payload
    ELSE SyntaxError

RECURSIVE FrameBytes(_, _)
FrameBytes(payloads, n) ==
    IF n = 0 THEN 0 ELSE FrameBytes(payloads, n - 1) + 4 + Len(payloads[n])

\* C33: however the stream is cut into data events, the frames decoded so
\* far are the first frames written, each once and in order, every sent
\* message decoded as itself; a frame is decoded only when all its bytes
\* have been read; and once every byte is read every frame is decoded.
C33_FramesDecodedInOrder ==
    /\ Len(frameLog) <= Len(framesWritten)
    /\ \A i \in 1..Len(frameLog) : frameLog[i] = Outcome(framesWritten[i])
    /\ FrameBytes(framesWritten, Len(frameLog)) <= bytesRead
    /\ wire = <<>> => Len(frameLog) = Len(framesWritten)

\* two frames are decoded and the length prefix of the third is cut: two of
\* its four bytes are buffered, the rest is still on its way
C33_Witness ==
    /\ Len(frameLog) = 2
    /\ frameLog[1] = "deleteA" /\ frameLog[2] = "ping"
    /\ expectedLength = NoLength
    /\ Len(buffer) = 2
    /\ wire # <<>>
    /\ bytesRead = 14

(***************************************************************************)
(* Frames nobody can handle.  The sender's frames reach the receiver's     *)
(* 'data' handler, every message that parses is emitted to SyncService,    *)
(* and SyncService handles them: they are deletions of a file and          *)
(* messages of a type it does not know.                                    *)
(***************************************************************************)

\* the message a JSON text stands for; no handler knows the type of the first
Message(m) ==
    CASE m = "ping"    -> [type |-> "PING"]
      [] m = "deleteB" -> [type |-> "FILE_DELETE", filePath |-> "b.md"]
      [] m = "deleteA" -> [type |-> "FILE_DELETE", filePath |-> "a.md"]

\* the message types handleMessage has a branch for
KnownTypes == {"SESSION_OFFER", "SESSION_ANSWER", "SYNC_REQUEST", "SYNC_RESPONSE",
               "FILE_REQUEST", "FILE_DELETE", "FILE_CHUNK"}

InitDrop ==
    /\ trust = [d \in Devices |-> [e \in Devices |->
                   IF d = e THEN NoKey ELSE IdentityKey(e)]]
    /\ pendingSessionOffers = [d \in Devices |-> [p \in Devices |-> NoOffer]]
    /\ sessionKeys = [d \in Devices |-> [p \in Devices |-> NoSession]]
    /\ ephCount = [d \in Devices |-> [p \in Devices |-> 0]]
    /\ sessionRace = [d \in Devices |-> [p \in Devices |-> "none"]]
    /\ chan = [s \in Devices |-> [r \in Devices |-> <<>>]]
    /\ vault = [d \in Devices |-> [path \in Paths |->
                   IF d = StrayReceiver /\ path \in EditPaths
                   THEN File(<<"x">>, 0) ELSE NoFile]]
    /\ journal = [d \in Devices |-> ScanVault(vault[d], EmptyJournal, 1)]
    /\ incomingChunks = [d \in Devices |-> [p \in Devices |-> [path \in Paths |-> NoTransfer]]]
    /\ remoteUpdateInProgress = [d \in Devices |-> {}]
    /\ outgoing = [d \in Devices |-> <<>>]
    /\ now = 1
    /\ edits = 0
    /\ raced = FALSE
    /\ RcIdle
    /\ CmIdle
    /\ TxIdle
    /\ PairIdle
    /\ ConnIdle
    /\ AsmIdle
    /\ DsIdle
    /\ ActIdle
    /\ FrIdle
    /\ SockIdle
    /\ TmIdle

\* the entries of log after the first n, without the payloads that did not
\* parse, as the messages TcpTransport.handleMessage emits
RECURSIVE Emitted(_, _)
Emitted(log, n) ==
    IF n >= Len(log) THEN <<>>
    ELSE IF log[n + 1] = SyntaxError THEN Emitted(log, n + 1)
    ELSE <<Message(log[n + 1])>> \o Emitted(log, n + 1)

\* socket.on('data') on the receiver's socket: the loop decodes the frames
\* that are complete, and each message that parses is emitted with the
\* peer id of the socket
ReceiveData ==
    \E k \in 1..Len(wire) :
        LET r == Drain(buffer \o SubSeq(wire, 1, k), expectedLength, frameLog) IN
        /\ wire' = SubSeq(wire, k + 1, Len(wire))
        /\ buffer' = r.buffer
        /\ expectedLength' = r.expectedLength
        /\ frameLog' = r.log
        /\ bytesRead' = bytesRead + k
        /\ chan' = [chan EXCEPT ![StraySender][StrayReceiver] = @ \o Emitted(r.log, Len(frameLog))]
        /\ UNCHANGED <<rcVars, cmVars, txVars, pairVars, connVars, asmVars, dsVars, actVars,
                       sockVars, tmVars, framesWritten, trust, pendingSessionOffers, sessionKeys,
                       ephCount, sessionRace, vault, journal, incomingChunks,
                       remoteUpdateInProgress, outgoing, now, edits, raced>>

\* handleMessage with a message whose type matches none of its branches
HandleUnknownMessage(d) ==
    LET p == PeerOf(d) IN
    /\ chan[p][d] # <<>>
    /\ Head(chan[p][d]).type \notin KnownTypes
    /\ Deliver(d, p, <<>>)
    /\ UNCHANGED <<sideVars, trust, pendingSessionOffers, sessionKeys, ephCount, sessionRace,
                   vault, journal, incomingChunks, remoteUpdateInProgress, outgoing, now,
                   edits, raced>>

NextDrop ==
    \/ sendToSocket
    \/ WriteBadFrame
    \/ ReceiveData
    \/ \E d \in Devices :
           \/ HandleUnknownMessage(d)
           \/ HandleFileDeleteMessage(d)
           \/ RemoteUpdateTimeout(d)

SpecDrop == InitDrop /\ [][NextDrop]_vars

\* the state of peers, sessions, transfers and journals, and the connection
DropState == <<trust, pendingSessionOffers, sessionKeys, ephCount, sessionRace, vault,
               journal, incomingChunks, remoteUpdateInProgress, outgoing, activeTransfers,
               peers, pairedDevices, connections>>

\* this step takes frames off the socket and at least one does not parse
ParseFails ==
    /\ Len(frameLog') > Len(frameLog)
    /\ \E i \in (Len(frameLog) + 1)..Len(frameLog') : frameLog'[i] = SyntaxError

\* this step takes a message of a type no branch knows from d's inbox
UnknownTaken(d) ==
    /\ chan[PeerOf(d)][d] # <<>>
    /\ Head(chan[PeerOf(d)][d]).type \notin KnownTypes
    /\ chan'[PeerOf(d)][d] = Tail(chan[PeerOf(d)][d])

\* C34: a frame whose payload is not JSON, and a message of an unknown type,
\* are dropped: the state of peers, sessions, transfers and journals does
\* not change, the connection stays up, the frames read with and after a
\* bad one are decoded as they were written, and the messages among them
\* are handed on in order.
C34_BadFrameDropped ==
    /\ [][/\ ParseFails =>
                /\ UNCHANGED DropState
                /\ connections.up
                /\ chan' = [chan EXCEPT ![StraySender][StrayReceiver] =
                               @ \o Emitted(frameLog', Len(frameLog))]
          /\ \A d \in Devices : UnknownTaken(d) =>
                /\ UNCHANGED DropState
                /\ connections.up
                /\ chan'[d][PeerOf(d)] = chan[d][PeerOf(d)]]_vars
    /\ [](/\ \A i \in 1..Len(frameLog) : frameLog[i] = Outcome(framesWritten[i])
          /\ wire = <<>> => Len(frameLog) = Len(framesWritten))

\* a frame that is not JSON and a message of unknown type were dropped,
\* and the FILE_DELETE written after them has been handled
C34_Witness ==
    /\ Len(frameLog) = 3
    /\ frameLog[1] = SyntaxError /\ frameLog[2] = "ping" /\ frameLog[3] = "deleteA"
    /\ chan[StraySender][StrayReceiver] = <<>>
    /\ vault[StrayReceiver]["a.md"] = NoFile
    /\ connections.up

(***************************************************************************)
(* The connection table of TcpTransport, on both devices.  A connection    *)
(* has a client end, made by connectToPeer, and a server end, accepted by  *)
(* the listening server; each end runs setupSocket when it is ready, and   *)
(* its 'close' handler once after the connection has ended.                *)
(***************************************************************************)
MaxSends == 2

InitSockets ==
    /\ QuietProtocol
    /\ RcIdle
    /\ CmIdle
    /\ TxIdle
    /\ PairIdle
    /\ ConnIdle
    /\ AsmIdle
    /\ DsIdle
    /\ ActIdle
    /\ FrIdle
    /\ SockIdle
    /\ TmIdle

Handshake(d) == [type |-> "HANDSHAKE", peerId |-> d]

Step(op, c, d, disconnected) ==
    [op |-> op, conn |-> c, device |-> d, disconnected |-> disconnected]

\* the end of connection c on device d was given the peer id when it was
\* set up: setupSocket(socket, peerId) is called for client ends only
KnownPeerId(c, d) == tcpSockets[c].client = d

\* connectToPeer: nothing is done when the table has an entry for the peer;
\* otherwise a connection is begun, and the table is written only in the
\* connect callback
connectToPeer(d) ==
    /\ tcpTable[d] = NoConn
    /\ \E c \in Conns :
        /\ tcpSockets[c] = NoSocket
        /\ \A b \in Conns : b < c => tcpSockets[b] # NoSocket
        /\ tcpSockets' = [tcpSockets EXCEPT ![c] =
               [client |-> d, ready |-> {}, open |-> TRUE, closed |-> {}]]
        /\ tcpLast' = Step("connectToPeer", c, d, FALSE)
    /\ UNCHANGED <<notSockVars, tcpTable, tcpPipe, tcpLog, tcpSent>>

\* the connect callback of connectToPeer: connections.set, setupSocket with
\* the peer id, sendHandshake
ClientConnected(c) ==
    LET d == tcpSockets[c].client IN
    /\ d # NoDevice
    /\ tcpSockets[c].open
    /\ d \notin tcpSockets[c].ready
    /\ tcpTable' = [tcpTable EXCEPT ![d] = c]
    /\ tcpSockets' = [tcpSockets EXCEPT ![c].ready = @ \cup {d}]
    /\ tcpPipe' = [tcpPipe EXCEPT ![c][PeerOf(d)] = Append(@, Handshake(d))]
    /\ tcpLast' = Step("connected", c, d, FALSE)
    /\ UNCHANGED <<notSockVars, tcpLog, tcpSent>>

\* handleConnection: the server end; setupSocket without a peer id, then
\* sendHandshake
handleConnection(c) ==
    LET d == PeerOf(tcpSockets[c].client) IN
    /\ tcpSockets[c].client # NoDevice
    /\ tcpSockets[c].open
    /\ d \notin tcpSockets[c].ready
    /\ tcpSockets' = [tcpSockets EXCEPT ![c].ready = @ \cup {d}]
    /\ tcpPipe' = [tcpPipe EXCEPT ![c][PeerOf(d)] = Append(@, Handshake(d))]
    /\ tcpLast' = Step("accepted", c, d, FALSE)
    /\ UNCHANGED <<notSockVars, tcpTable, tcpLog, tcpSent>>

\* the sender TcpTransport.handleMessage finds for a frame read from
\* connection c at device d: the peer id the end was set up with, or the key
\* of the table entry that holds this socket
SenderId(c, d) ==
    IF KnownPeerId(c, d) THEN PeerOf(d)
    ELSE IF tcpTable[d] = c THEN PeerOf(d)
    ELSE "unknown"

\* TcpTransport.handleMessage for the next frame of connection c at d: a
\* HANDSHAKE stores the socket under the peer id it names, any other frame
\* is emitted under the sender found, or dropped with a warning
tcpHandleMessage(c, d) ==
    /\ d \in tcpSockets[c].ready
    /\ d \notin tcpSockets[c].closed
    /\ tcpPipe[c][d] # <<>>
    /\ LET m == Head(tcpPipe[c][d]) IN
       IF m.type = "HANDSHAKE"
       THEN /\ tcpTable' = [tcpTable EXCEPT ![d] = c]
            /\ UNCHANGED tcpLog
       ELSE /\ tcpLog' = [tcpLog EXCEPT ![d] = Append(@, [msg |-> m, from |-> SenderId(c, d)])]
            /\ UNCHANGED tcpTable
    /\ tcpPipe' = [tcpPipe EXCEPT ![c][d] = Tail(@)]
    /\ tcpLast' = Step("message", c, d, FALSE)
    /\ UNCHANGED <<notSockVars, tcpSockets, tcpSent>>

\* send(peerId, data): written to the socket of the table entry; a write to
\* a socket that has ended goes nowhere
send(d) ==
    LET c == tcpTable[d] IN
    /\ c # NoConn
    /\ tcpSent < MaxSends
    /\ tcpSent' = tcpSent + 1
    /\ tcpPipe' = IF tcpSockets[c].open
                  THEN [tcpPipe EXCEPT ![c][PeerOf(d)] =
                           Append(@, [type |-> "DATA", n |-> tcpSent + 1, sender |-> d])]
                  ELSE tcpPipe
    /\ tcpLast' = Step("send", c, d, FALSE)
    /\ UNCHANGED <<notSockVars, tcpSockets, tcpTable, tcpLog>>

\* disconnect(peerId): socket.end, socket.destroy, connections.delete and
\* 'disconnected'; the frames not yet read by this end are discarded
disconnect(d) ==
    LET c == tcpTable[d] IN
    /\ c # NoConn
    /\ tcpSockets' = [tcpSockets EXCEPT ![c].open = FALSE]
    /\ tcpPipe' = [tcpPipe EXCEPT ![c][d] = <<>>]
    /\ tcpTable' = [tcpTable EXCEPT ![d] = NoConn]
    /\ tcpLast' = Step("disconnect", c, d, TRUE)
    /\ UNCHANGED <<notSockVars, tcpLog, tcpSent>>

\* the connection ends without either transport asking: the network or the
\* peer's process
ConnectionLost(c) ==
    /\ tcpSockets[c].open
    /\ tcpSockets[c].ready # {}
    /\ tcpSockets' = [tcpSockets EXCEPT ![c].open = FALSE]
    /\ tcpLast' = Step("lost", c, NoDevice, FALSE)
    /\ UNCHANGED <<notSockVars, tcpTable, tcpPipe, tcpLog, tcpSent>>

\* the table of d after the 'close' handler of its end of connection c: an
\* end set up with a peer id deletes the entry of that id, an end set up
\* without one deletes the entry that holds this socket
CloseTable(c, d) ==
    IF KnownPeerId(c, d) THEN NoConn
    ELSE IF tcpTable[d] = c THEN NoConn
    ELSE tcpTable[d]

\* socket.on('close') of d's end of connection c, after all its data
ClosedEvent(c, d) ==
    /\ ~tcpSockets[c].open
    /\ d \in tcpSockets[c].ready
    /\ d \notin tcpSockets[c].closed
    /\ tcpPipe[c][d] = <<>>
    /\ tcpSockets' = [tcpSockets EXCEPT ![c].closed = @ \cup {d}]
    /\ tcpTable' = [tcpTable EXCEPT ![d] = CloseTable(c, d)]
    /\ tcpLast' = Step("close", c, d, KnownPeerId(c, d) \/ tcpTable[d] = c)
    /\ UNCHANGED <<notSockVars, tcpPipe, tcpLog, tcpSent>>

NextSockets ==
    \/ \E d \in Devices : connectToPeer(d)
    \/ \E c \in Conns : ClientConnected(c)
    \/ \E c \in Conns : handleConnection(c)
    \/ \E c \in Conns, d \in Devices : tcpHandleMessage(c, d)
    \/ \E d \in Devices : send(d)
    \/ \E d \in Devices : disconnect(d)
    \/ \E c \in Conns : ConnectionLost(c)
    \/ \E c \in Conns, d \in Devices : ClosedEvent(c, d)

SpecSockets == InitSockets /\ [][NextSockets]_vars

\* C35: every message sent with send and read by the peer's transport is
\* emitted under the sender's peer id, none is dropped as coming from an
\* unknown socket.
C35_SentMessagesDelivered ==
    \A d \in Devices : \A i \in 1..Len(tcpLog[d]) :
        tcpLog[d][i].from = tcpLog[d][i].msg.sender

\* this step is the 'close' handler of d's end of connection c
CloseHandled(c, d) == d \in tcpSockets'[c].closed /\ d \notin tcpSockets[c].closed

\* d's table holds a connection that is alive
CurrentOpen(d) == tcpTable[d] # NoConn /\ tcpSockets[tcpTable[d]].open

\* C40: the 'close' event of a socket that the table does not hold leaves
\* the table alone, and no 'close' event emits 'disconnected' for a peer
\* whose current connection is open.
C40_CloseKeepsNewerEntry ==
    [][\A c \in Conns, d \in Devices :
          CloseHandled(c, d) =>
              /\ tcpTable[d] # c => tcpTable'[d] = tcpTable[d]
              /\ CurrentOpen(d) => ~tcpLast'.disconnected]_vars

(***************************************************************************)
(* Local edits against inbound writes and remote deletions                 *)
(***************************************************************************)

\* this step is a create or modify of path in the vault of d, made by the
\* user, that changes the content hash of the file
LocalEdit(d, path) ==
    /\ edits' = edits + 1
    /\ vault'[d][path].exists
    /\ \/ ~vault[d][path].exists
       \/ Hash(vault'[d][path].content) # Hash(vault[d][path].content)

\* C36: every local create or modify that changes the content hash is
\* recorded in the journal and, when the peer is paired and has a session,
\* a transfer of the new content to it is started.
C36_LocalEditsPushed ==
    [][\A d \in Devices, path \in EditPaths :
          LocalEdit(d, path) =>
              /\ journal'[d].files[path].present
              /\ ~journal'[d].files[path].is_deleted
              /\ journal'[d].files[path].hash = Hash(vault'[d][path].content)
              /\ (isDevicePaired(d, PeerOf(d)) /\ sessionKeys[d][PeerOf(d)] # NoSession) =>
                     outgoing'[d] = Append(outgoing[d],
                         Transfer(PeerOf(d), path, vault'[d][path].content,
                                  sessionKeys[d][PeerOf(d)]))]_vars

(***************************************************************************)
(* A deletion on one device against a later edit on the other.  The        *)
(* devices are paired and hold the same file; the behaviours begin when    *)
(* the user of one device has just deleted it: handleFileDelete has        *)
(* written the tombstone and broadcastDelete has sent FILE_DELETE.         *)
(***************************************************************************)
Deleter == "dA"
Keeper == PeerOf(Deleter)
DeletedPath == "a.md"

InitDeleted ==
    /\ trust = [d \in Devices |-> [e \in Devices |->
                   IF d = e THEN NoKey ELSE IdentityKey(e)]]
    /\ pendingSessionOffers = [d \in Devices |-> [p \in Devices |-> NoOffer]]
    /\ sessionKeys = [d \in Devices |-> [p \in Devices |-> NoSession]]
    /\ ephCount = [d \in Devices |-> [p \in Devices |-> 0]]
    /\ sessionRace = [d \in Devices |-> [p \in Devices |-> "none"]]
    /\ chan = [s \in Devices |-> [r \in Devices |->
                  IF s = Deleter /\ r = Keeper
                  THEN <<[type |-> "FILE_DELETE", filePath |-> DeletedPath]>>
                  ELSE <<>>]]
    /\ vault = [d \in Devices |-> [path \in Paths |->
                   IF d = Keeper /\ path = DeletedPath THEN File(<<"x">>, 0) ELSE NoFile]]
    /\ journal = [d \in Devices |->
                   LET scanned == ScanVault([path \in Paths |->
                                      IF path = DeletedPath THEN File(<<"x">>, 0) ELSE NoFile],
                                            EmptyJournal, 1)
                   IN  IF d = Deleter
                       THEN mark_file_deleted(scanned, DeletedPath, 1).journal
                       ELSE scanned]
    /\ incomingChunks = [d \in Devices |-> [p \in Devices |-> [path \in Paths |-> NoTransfer]]]
    /\ remoteUpdateInProgress = [d \in Devices |-> {}]
    /\ outgoing = [d \in Devices |-> <<>>]
    /\ now = 1
    /\ edits = 0
    /\ raced = FALSE
    /\ RcIdle
    /\ CmIdle
    /\ TxIdle
    /\ PairIdle
    /\ ConnIdle
    /\ AsmIdle
    /\ DsIdle
    /\ ActIdle
    /\ FrIdle
    /\ SockIdle
    /\ TmIdle

SpecDeleted == InitDeleted /\ [][Next]_vars

\* this step handles a FILE_DELETE at d and removes the file of its path
RemoteDeleteApplied(d, path) ==
    /\ HasMessage(d, PeerOf(d), "FILE_DELETE")
    /\ Head(chan[PeerOf(d)][d]).filePath = path
    /\ chan'[PeerOf(d)][d] = Tail(chan[PeerOf(d)][d])
    /\ vault[d][path].exists
    /\ ~vault'[d][path].exists

\* C37: a received FILE_DELETE never removes a local file that was modified
\* after the sender deleted its copy, the time its tombstone bears.
C37_DeleteOnlyOlderFile ==
    [][\A d \in Devices, path \in Paths :
          (RemoteDeleteApplied(d, path) /\ journal[PeerOf(d)].files[path].is_deleted) =>
              vault[d][path].mtime <= journal[PeerOf(d)].files[path].mtime]_vars

(***************************************************************************)
(* Overlapping transfers of one path                                       *)
(***************************************************************************)

\* this step handles a FILE_CHUNK at d and writes the file of path
ChunkWrites(d, path) ==
    /\ HasMessage(d, PeerOf(d), "FILE_CHUNK")
    /\ Head(chan[PeerOf(d)][d]).filePath = path
    /\ chan'[PeerOf(d)][d] = Tail(chan[PeerOf(d)][d])
    /\ vault'[d][path] # vault[d][path]

\* C38: every content a receiver writes for a path is one whole version of
\* the file: files are only ever created with a content of Contents, so
\* every version any sender held is one of them.
C38_WrittenContentIsOneVersion ==
    [][\A d \in Devices, path \in Paths :
          ChunkWrites(d, path) => vault'[d][path].content \in Contents]_vars

(***************************************************************************)
(* The end of the suppression of a path on the receiver of a transfer      *)
(***************************************************************************)

\* the callback of a timer set by reassembleAndWrite:
\* remoteUpdateInProgress.delete(filePath)
SuppressTimerFires ==
    \E path \in Paths :
        /\ suppressTimers[path] > 0
        /\ suppressTimers' = [suppressTimers EXCEPT ![path] = @ - 1]
        /\ remoteUpdateInProgress' = [remoteUpdateInProgress EXCEPT ![Receiver] = @ \ {path}]
        /\ UNCHANGED <<sessionVars, rcVars, cmVars, txVars, pairVars, connVars, asmVars, dsVars,
                       actVars, frVars, sockVars, chan, vault, journal, incomingChunks,
                       outgoing>>

NextSuppress ==
    \/ ReceiveChunkStatus
    \/ WriteResolves
    \/ WriteRejects
    \/ SuppressTimerFires

SpecSuppress == InitReassemble /\ [][NextSuppress]_vars

\* messages are handled, a write settles one way or the other, and a timer
\* that was set fires
FairSpecSuppress ==
    /\ SpecSuppress
    /\ WF_vars(ReceiveChunkStatus)
    /\ WF_vars(WriteResolves \/ WriteRejects)
    /\ WF_vars(SuppressTimerFires)

\* C39: the path of a transfer, once in the receiver's
\* remoteUpdateInProgress, is eventually out of it again.
C39_SuppressionEnds ==
    (TxPath \in remoteUpdateInProgress[Receiver]) ~>
        (TxPath \notin remoteUpdateInProgress[Receiver])

====
